---- MODULE Spec2Model ----
(***************************************************************************)
(* Model of the PRISM daily raster synchronizer                            *)
(* (src/app/download_prism_daily.py).                                      *)
(*                                                                         *)
(* and of the grid feature engine (src/app/predict_daily_triple.py,        *)
(* src/app/rainfall_features.py).                                          *)
(*                                                                         *)
(* The specifications of this module:                                      *)
(*   SpecMeta  - needs_update_by_meta / load_meta as pure functions        *)
(*   Spec      - sync_day for one date, step by step, against a remote     *)
(*               archive that may change between calls                     *)
(*   SpecPrune - cleanup_old_data over a directory listing                 *)
(*   SpecBatch - the batch driver main of download_prism_daily.py          *)
(*   SpecDate  - _resolve_target_date, _collect_day_paths and the paths of *)
(*               rainfall_features._load_stack                             *)
(*   SpecAgg   - the window aggregates of one cell, from the raster values *)
(*   SpecPipe  - predict: reference raster, mask, sampling of the window;  *)
(*               rainfall_features._load_stack on the same window          *)
(*   SpecTable - predict from the mask to the rows of the results frame    *)
(*   SpecHist  - the batch driver main of static_historic_prediction.py    *)
(*   SpecPar   - two workers running sync_day, one sequential run and one  *)
(*               interleaved run from the same files                       *)
(* Variables that a specification does not use are held at a fixed value.  *)
(***************************************************************************)
EXTENDS Integers, Sequences, FiniteSets, TLC

VARIABLES
    \* ---- SpecMeta: one call of needs_update_by_meta(load_meta(m), remote, fields)
    nu_sidecar,     \* the sidecar file the local fingerprint is loaded from
    nu_remote,      \* the remote_meta argument (None or a dict)
    nu_fields,      \* the fields argument (cfg["compare_fields"])
    nu_result,      \* the value returned
    nu_pc,          \* "call" before the call, "done" after it
    \* ---- Spec: sync_day for one date
    cfg,            \* the configuration dict of load_config
    zip,            \* file zip_path(cfg, d)
    tmp,            \* file zip_path(cfg, d).with_suffix(".zip.tmp")
    meta,           \* file meta_path(cfg, d)
    folder,         \* directory folder_path(cfg, d)
    srv,            \* the remote archive: what HEAD and GET answer for the date
    pc,             \* position of the running sync_day
    remote,         \* local variable remote of sync_day
    update_needed,  \* local variable update_needed of sync_day
    i,              \* loop variable i of retry_get
    resp,           \* the response r whose body download_zip streams
    site,           \* which call of download_zip is running (1: line 128, 2: line 143)
    hist,           \* observations of the running call (requests, sleeps, failures)
    prev,           \* observations of the previous call
    now,            \* clock: number of sync_day calls started
    \* ---- SpecPrune: cleanup_old_data
    entries,        \* directory listing of rainfall_dir
    todo,           \* entries root.iterdir() has not yet yielded
    today,          \* dt.date.today() as a day number
    keep_window,    \* cfg["retention_days"]
    plog,           \* what cleanup_old_data did to each entry
    \* ---- SpecBatch: main of download_prism_daily.py
    b_cfg,          \* start_offset_days, end_offset_days, retention_days
    b_today,        \* dt.date.today() as a day number
    b_delta,        \* loop variable delta
    b_pc,           \* "loop", "sync" (inside sync_day), "prune", "done"
    b_calls,        \* the sync_day calls made so far: date and how each ended
    b_out,          \* the lines main printed
    b_keep,         \* the keep set passed to cleanup_old_data
    \* ---- SpecDate: _resolve_target_date, _collect_day_paths
    d_store,        \* directory listing of RAIN_DIR
    d_requested,    \* the requested date
    d_window,       \* the window argument
    d_pc,           \* "call", "resolved", "again", "collected", "raised",
                    \* "rf_collected", "rf_raised"
    d_resolved,     \* value returned by _resolve_target_date(requested)
    d_again,        \* value returned by _resolve_target_date(d_resolved)
    d_paths,        \* value returned by _collect_day_paths(requested, window)
    \* ---- SpecAgg: _compute_rain_features
    a_stack,        \* the stack of one cell, oldest layer first
    a_feats,        \* the returned features of that cell
    a_pc,           \* "start", "pdt", "rf"
    a_raw,          \* the values of that cell as the rasters hold them
    a_nodata,       \* the nodata value the rasters declare (None: none)
    \* ---- SpecPipe: predict
    f_days,         \* day_paths: per day, no path, a readable or an unreadable raster
    f_shape,        \* the county shapefile and how its polygon meets the grid
    f_pc,           \* position in predict
    f_ref,          \* index in day_paths of the reference raster (0: none)
    f_mask,         \* the mask: the set of true cells
    f_k,            \* index of the day _sample_rainfall is at
    f_samples,      \* the samples list of _sample_rainfall
    f_out,          \* what main printed about the window
    f_err,          \* the exception that left predict ("none" if none)
    f_io,           \* the raster handles that are open, and the output files of the date
    f_crs,          \* per day, ds.crs of the raster that opens ("-" for the others)
    f_warp,         \* coord_cache of _sample_rainfall and the warp_transform calls made
    \* ---- SpecTable: predict from the mask to the feature table
    t_mask,         \* the mask array: the set of true (row, col) cells
    t_static,       \* the rows of the static parquet, in file order
    t_rain,         \* the rainfall feature value the stack holds at each cell
    t_rows,         \* the rows of the results DataFrame, in order
    t_pc,           \* "call", "done"
    \* ---- SpecHist: main of static_historic_prediction.py
    h_cfg,          \* the days requested, --skip-existing, and what is on disk
    h_k,            \* index in days of the date the for loop is at
    h_pc,           \* "setup", "loop", "done", "crashed"
    h_lists,        \* the lists ok, skipped, failed
    h_out,          \* the lines main printed
    \* ---- SpecPar: two workers, each running sync_day for a date
    w_cfg,          \* the configuration both workers loaded
    w_date,         \* the date of each worker
    w_script,       \* what the remote answers each worker
    w_order,        \* the order of the two calls in the sequential run
    w_fs,           \* per run, the files of rainfall_dir by path
    w_ino,          \* per run, the content of each inode
    w_loc,          \* per run and worker, the position and locals of sync_day
    w_overlap       \* a worker has stepped while the other was inside sync_day

mvars == <<nu_sidecar, nu_remote, nu_fields, nu_result, nu_pc>>
svars == <<cfg, zip, tmp, meta, folder, srv, pc, remote, update_needed, i, resp,
           site, hist, prev, now>>
pvars == <<entries, todo, today, keep_window, plog>>
bvars == <<b_cfg, b_today, b_delta, b_pc, b_calls, b_out, b_keep>>
dvars == <<d_store, d_requested, d_window, d_pc, d_resolved, d_again, d_paths>>
avars == <<a_stack, a_feats, a_pc, a_raw, a_nodata>>
fvars == <<f_days, f_shape, f_pc, f_ref, f_mask, f_k, f_samples, f_out, f_err, f_io,
           f_crs, f_warp>>
wvars == <<w_cfg, w_date, w_script, w_order, w_fs, w_ino, w_loc, w_overlap>>
tvars == <<t_mask, t_static, t_rain, t_rows, t_pc>>
hvars == <<h_cfg, h_k, h_pc, h_lists, h_out>>
xvars == <<bvars, dvars, avars, fvars, wvars, tvars, hvars>>
vars == <<mvars, svars, pvars, xvars>>

(***************************************************************************)
(* Bounds                                                                  *)
(***************************************************************************)
NVals == 2          \* distinct header values per fingerprint field
MaxFields == 2      \* longest compare_fields list drawn in SpecMeta

(***************************************************************************)
(* Python values                                                           *)
(***************************************************************************)
None == -1          \* Python None as a field value (dict.get default, absent header)

FpKeys == {"etag", "last_modified_utc", "content_length"}
MetaKeys == FpKeys \cup {"synced_utc"}
Vals == 1..NVals

\* A dict is a function whose domain is its key set.
EmptyDict == [k \in {} |-> None]
Dicts(keys, vals) == UNION {[D -> vals] : D \in SUBSET keys}

\* dict.get(k): the value, or None when the key is missing
Get(d, k) == IF k \in DOMAIN d THEN d[k] ELSE None

\* truthiness of a dict-or-None: None and {} are falsy
Truthy(d) == DOMAIN d # {}

\* None as the remote_meta value returned by head_remote on 404
NoRemote == [found |-> FALSE, d |-> EmptyDict]
FoundRemote(d) == [found |-> TRUE, d |-> d]
\* bool(remote_meta)
RemoteTruthy(r) == r.found /\ Truthy(r.d)

\* sidecar file states: no file, a file json.loads rejects, a JSON object
NoFile == [st |-> "absent", d |-> EmptyDict]
CorruptFile == [st |-> "corrupt", d |-> EmptyDict]
JsonFile(d) == [st |-> "ok", d |-> d]

load_meta(m) ==
    IF m.st # "absent"
    THEN IF m.st = "ok" THEN m.d ELSE EmptyDict
    ELSE EmptyDict

\* the for loop of needs_update_by_meta over fields[k..]
RECURSIVE FieldLoop(_, _, _, _)
FieldLoop_FirstOnly(local_meta, remote_meta, fields, k) ==
    IF k > Len(fields) THEN FALSE
    ELSE Get(remote_meta, fields[k]) # Get(local_meta, fields[k])
FieldLoop(local_meta, remote_meta, fields, k) ==
    IF k > Len(fields) THEN FALSE
    ELSE IF Get(remote_meta, fields[k]) # Get(local_meta, fields[k]) THEN TRUE
    ELSE FieldLoop(local_meta, remote_meta, fields, k + 1)

needs_update_LocalFirst(local_meta, remote_meta, fields) ==
    IF ~Truthy(local_meta) THEN TRUE
    ELSE IF ~RemoteTruthy(remote_meta) THEN FALSE
    ELSE FieldLoop(local_meta, remote_meta.d, fields, 1)
needs_update_by_meta(local_meta, remote_meta, fields) ==
    IF ~RemoteTruthy(remote_meta) THEN FALSE
    ELSE IF ~Truthy(local_meta) THEN TRUE
    ELSE FieldLoop(local_meta, remote_meta.d, fields, 1)

(***************************************************************************)
(* SpecMeta: needs_update_by_meta applied to drawn inputs                  *)
(***************************************************************************)
\* remote_meta as head_remote builds it: always the three fingerprint keys
RemoteDicts == [FpKeys -> Vals \cup {None}]
\* sidecars: any JSON object over the sidecar's keys
LocalDicts == {d \in Dicts(MetaKeys, Vals \cup {None}) :
                  "synced_utc" \in DOMAIN d => d["synced_utc"] = 1}
SeqsUpTo(S, n) == UNION {[1..k -> S] : k \in 0..n}

MetaIdle ==
    /\ nu_sidecar = NoFile /\ nu_remote = NoRemote /\ nu_fields = <<>>
    /\ nu_result = FALSE /\ nu_pc = "off"
SyncIdle ==
    /\ cfg = <<>> /\ zip = <<>> /\ tmp = <<>> /\ meta = <<>> /\ folder = <<>>
    /\ srv = <<>> /\ pc = "off" /\ remote = NoRemote /\ update_needed = FALSE
    /\ i = 0 /\ resp = <<>> /\ site = 0 /\ hist = <<>> /\ prev = <<>> /\ now = 0
PruneIdle ==
    /\ entries = {} /\ todo = {} /\ today = 0 /\ keep_window = 0 /\ plog = <<>>

BatchIdle ==
    /\ b_cfg = <<>> /\ b_today = 0 /\ b_delta = 0 /\ b_pc = "off"
    /\ b_calls = <<>> /\ b_out = <<>> /\ b_keep = {}
DateIdle ==
    /\ d_store = {} /\ d_requested = 0 /\ d_window = 0 /\ d_pc = "off"
    /\ d_resolved = <<>> /\ d_again = <<>> /\ d_paths = <<>>
AggIdle ==
    /\ a_stack = <<>> /\ a_feats = <<>> /\ a_pc = "off"
    /\ a_raw = <<>> /\ a_nodata = None
ParIdle ==
    /\ w_cfg = <<>> /\ w_date = <<>> /\ w_script = <<>> /\ w_order = <<>>
    /\ w_fs = <<>> /\ w_ino = <<>> /\ w_loc = <<>> /\ w_overlap = FALSE
PipeIdle ==
    /\ f_days = <<>> /\ f_shape = <<>> /\ f_pc = "off" /\ f_ref = 0 /\ f_mask = {}
    /\ f_k = 0 /\ f_samples = <<>> /\ f_out = <<>> /\ f_err = "none" /\ f_io = <<>>
    /\ f_crs = <<>> /\ f_warp = <<>>
TableIdle ==
    /\ t_mask = {} /\ t_static = <<>> /\ t_rain = <<>> /\ t_rows = <<>> /\ t_pc = "off"
HistIdle ==
    /\ h_cfg = <<>> /\ h_k = 0 /\ h_pc = "off" /\ h_lists = <<>> /\ h_out = <<>>

InitMeta ==
    /\ nu_sidecar \in {NoFile, CorruptFile} \cup {JsonFile(d) : d \in LocalDicts}
    /\ nu_remote \in {NoRemote} \cup {FoundRemote(d) : d \in RemoteDicts}
    /\ nu_fields \in SeqsUpTo(MetaKeys, MaxFields)
    /\ nu_result = FALSE
    /\ nu_pc = "call"
    /\ SyncIdle /\ PruneIdle
    /\ BatchIdle /\ DateIdle /\ AggIdle /\ PipeIdle /\ ParIdle
    /\ TableIdle /\ HistIdle

CallNeedsUpdate ==
    /\ nu_pc = "call"
    /\ nu_result' = needs_update_by_meta(load_meta(nu_sidecar), nu_remote, nu_fields)
    /\ nu_pc' = "done"
    /\ UNCHANGED <<nu_sidecar, nu_remote, nu_fields, svars, pvars, xvars>>

NextMeta == CallNeedsUpdate
SpecMeta == InitMeta /\ [][NextMeta]_vars

(***************************************************************************)
(* Spec: sync_day for one date                                             *)
(***************************************************************************)
MaxAttemptsCfg == 3     \* largest cfg["retries"]["max"] drawn
MaxSyncs == 2           \* sync_day calls per behaviour
NChunks == 2            \* chunks r.iter_content yields for a complete body

Backoffs == {2}
\* what the archive of the date contains: the expected .tif, other files only,
\* or bytes zipfile cannot open
Bodies == {"tif", "other", "bad"}
\* compare_fields: one field, or the default of load_config
CompareFieldChoices ==
    {<<"etag">>, <<"etag", "last_modified_utc", "content_length">>}
\* fingerprints HEAD may report: one of two ETags with a Content-Length, or
\* the first ETag without one
SyncFps == {[etag |-> e, last_modified_utc |-> 1, content_length |-> 1] : e \in {1, 2}}
           \cup {[etag |-> 1, last_modified_utc |-> 1, content_length |-> None]}

Cfgs == [extract : BOOLEAN, verify_tif : BOOLEAN, delete_zip_after_extract : BOOLEAN,
         retries_max : 0..MaxAttemptsCfg, retries_backoff : Backoffs,
         compare_fields : CompareFieldChoices]
\* the archive is missing (HEAD and GET answer 404), or present with a
\* fingerprint and a body
NoArchive == [found |-> FALSE, fp |-> [k \in FpKeys |-> None], body |-> "none"]
Servers == {NoArchive} \cup [found : {TRUE}, fp : SyncFps, body : Bodies]

\* a regular file: ex = it exists, body = whose bytes, n = chunks written
NoZip == [ex |-> FALSE, body |-> "none", n |-> 0]
ZipFile(b, n) == [ex |-> TRUE, body |-> b, n |-> n]
\* the extracted folder: ex = it exists, tif = it holds prefix+YYYYMMDD.tif
NoFolder == [ex |-> FALSE, tif |-> FALSE]
\* tif_path(cfg, d).exists()
TifExists == folder.ex /\ folder.tif

NoResp == [ok |-> FALSE, body |-> "none"]
Exceptions == {"ConnectionError", "Timeout"}

FreshHist ==
    [log |-> <<>>, excs |-> <<>>, sleeps |-> <<>>, attempts |-> 0,
     fail |-> "none", raised |-> "none", head |-> "none", flagged |-> FALSE,
     fs0 |-> <<zip, tmp, meta, folder>>]
NoPrev == [ok |-> FALSE, remote |-> NoRemote]

Terminal == {"done", "skipped", "raised"}
Logged(e) == hist' = [hist EXCEPT !.log = Append(@, e)]
Count(s, e) == Cardinality({k \in DOMAIN s : s[k] = e})

InitSync ==
    /\ cfg \in Cfgs
    /\ zip = NoZip /\ tmp = NoZip /\ meta = NoFile /\ folder = NoFolder
    /\ srv = NoArchive
    /\ pc = "idle" /\ remote = NoRemote /\ update_needed = FALSE
    /\ i = 0 /\ resp = NoResp /\ site = 0
    /\ hist = [log |-> <<>>, excs |-> <<>>, sleeps |-> <<>>, attempts |-> 0,
               fail |-> "none", raised |-> "none", head |-> "none",
               flagged |-> FALSE, fs0 |-> <<NoZip, NoZip, NoFile, NoFolder>>]
    /\ prev = NoPrev /\ now = 0
    /\ MetaIdle /\ PruneIdle
    /\ BatchIdle /\ DateIdle /\ AggIdle /\ PipeIdle /\ ParIdle
    /\ TableIdle /\ HistIdle

\* the caller invokes sync_day(cfg, d); the archive is in some state by then
StartSync ==
    /\ pc \in Terminal \cup {"idle"}
    /\ now < MaxSyncs
    /\ now' = now + 1
    /\ srv' \in Servers
    /\ prev' = [ok |-> pc = "done", remote |-> remote]
    /\ hist' = FreshHist
    /\ pc' = "head"
    /\ remote' = NoRemote /\ update_needed' = FALSE /\ i' = 0
    /\ resp' = NoResp /\ site' = 0
    /\ UNCHANGED <<cfg, zip, tmp, meta, folder, mvars, pvars, xvars>>

\* head_remote: status 404 -> None, and sync_day returns
Head404_FallsThrough ==
    /\ pc = "head" /\ ~srv.found
    /\ remote' = NoRemote
    /\ hist' = [hist EXCEPT !.head = "404"]
    /\ pc' = "check"
    /\ UNCHANGED <<cfg, zip, tmp, meta, folder, srv, update_needed, i, resp, site,
                   prev, now, mvars, pvars, xvars>>
Head404 ==
    /\ pc = "head" /\ ~srv.found
    /\ remote' = NoRemote
    /\ hist' = [hist EXCEPT !.head = "404"]
    /\ pc' = "skipped"
    /\ UNCHANGED <<cfg, zip, tmp, meta, folder, srv, update_needed, i, resp, site,
                   prev, now, mvars, pvars, xvars>>

\* head_remote: requests.head raises, or raise_for_status on another status
HeadError ==
    /\ pc = "head"
    /\ hist' = [hist EXCEPT !.head = "error", !.fail = "head", !.raised = "HeadError"]
    /\ pc' = "raised"
    /\ UNCHANGED <<cfg, zip, tmp, meta, folder, srv, remote, update_needed, i, resp,
                   site, prev, now, mvars, pvars, xvars>>

\* head_remote: success, the fingerprint is built from the headers
HeadOk ==
    /\ pc = "head" /\ srv.found
    /\ remote' = FoundRemote(srv.fp)
    /\ hist' = [hist EXCEPT !.head = "ok"]
    /\ pc' = "check"
    /\ UNCHANGED <<cfg, zip, tmp, meta, folder, srv, update_needed, i, resp, site,
                   prev, now, mvars, pvars, xvars>>

\* local_meta = load_meta(m); update_needed = needs_update_by_meta(...)
Check ==
    /\ pc = "check"
    /\ update_needed' = needs_update_by_meta(load_meta(meta), remote, cfg.compare_fields)
    /\ pc' = IF update_needed' THEN "unlink_z" ELSE "extract"
    /\ UNCHANGED <<cfg, zip, tmp, meta, folder, srv, remote, i, resp, site, hist,
                   prev, now, mvars, pvars, xvars>>

\* if z.exists(): z.unlink()
UnlinkZ_AfterFetch ==
    /\ pc = "unlink_z"
    /\ UNCHANGED <<zip, hist>>
    /\ pc' = "unlink_m"
    /\ UNCHANGED <<cfg, tmp, meta, folder, srv, remote, update_needed, i, resp, site,
                   prev, now, mvars, pvars, xvars>>
UnlinkZ ==
    /\ pc = "unlink_z"
    /\ zip' = NoZip
    /\ IF zip.ex THEN Logged("unlink_zip") ELSE UNCHANGED hist
    /\ pc' = "unlink_m"
    /\ UNCHANGED <<cfg, tmp, meta, folder, srv, remote, update_needed, i, resp, site,
                   prev, now, mvars, pvars, xvars>>

\* if m.exists(): m.unlink()
UnlinkM ==
    /\ pc = "unlink_m"
    /\ meta' = NoFile
    /\ IF meta.st # "absent" THEN Logged("unlink_meta") ELSE UNCHANGED hist
    /\ pc' = "rmtree"
    /\ UNCHANGED <<cfg, zip, tmp, folder, srv, remote, update_needed, i, resp, site,
                   prev, now, mvars, pvars, xvars>>

\* the sidecar save_meta writes
NewMeta ==
    JsonFile([k \in MetaKeys |-> IF k = "synced_utc" THEN now ELSE Get(remote.d, k)])

\* if folder.exists(): shutil.rmtree(folder); then z = download_zip(cfg, d)
Rmtree_WritesMeta ==
    /\ pc = "rmtree"
    /\ folder' = NoFolder
    /\ meta' = NewMeta
    /\ hist' = [hist EXCEPT !.log = (IF folder.ex THEN Append(@, "rmtree") ELSE @)
                                      \o <<"save_meta">>]
    /\ pc' = "get" /\ site' = 1 /\ i' = 0
    /\ UNCHANGED <<cfg, zip, tmp, srv, remote, update_needed, resp,
                   prev, now, mvars, pvars, xvars>>
Rmtree ==
    /\ pc = "rmtree"
    /\ folder' = NoFolder
    /\ IF folder.ex THEN Logged("rmtree") ELSE UNCHANGED hist
    /\ pc' = "get" /\ site' = 1 /\ i' = 0
    /\ UNCHANGED <<cfg, zip, tmp, meta, srv, remote, update_needed, resp,
                   prev, now, mvars, pvars, xvars>>

\* retry_get: if i == retries - 1: raise
IsLastAttempt_OffByOne(k, retries) == k = retries
IsLastAttempt(k, retries) == k = retries - 1
\* retry_get: time.sleep(backoff * (i + 1))
SleepSeconds(backoff, k) == backoff * (k + 1)

\* retry_get, one pass of the loop body in which requests.get raises e
GetRaises ==
    /\ pc = "get" /\ i < cfg.retries_max
    /\ \E e \in Exceptions :
          IF IsLastAttempt(i, cfg.retries_max)
          THEN /\ hist' = [hist EXCEPT !.log = Append(@, "GET"),
                                       !.attempts = @ + 1,
                                       !.excs = Append(@, e),
                                       !.fail = "connect", !.raised = e]
               /\ pc' = "raised"
               /\ i' = i
          ELSE /\ hist' = [hist EXCEPT !.log = Append(@, "GET"),
                                       !.attempts = @ + 1,
                                       !.excs = Append(@, e),
                                       !.sleeps = Append(@, SleepSeconds(cfg.retries_backoff, i))]
               /\ pc' = "get"
               /\ i' = i + 1
    /\ UNCHANGED <<cfg, zip, tmp, meta, folder, srv, remote, update_needed, resp, site,
                   prev, now, mvars, pvars, xvars>>

\* retry_get returns a response with a non-success status;
\* r.raise_for_status() in download_zip raises
GetBadStatus ==
    /\ pc = "get" /\ i < cfg.retries_max
    /\ hist' = [hist EXCEPT !.log = Append(@, "GET"), !.attempts = @ + 1,
                            !.fail = "status", !.raised = "HTTPError"]
    /\ pc' = "raised"
    /\ UNCHANGED <<cfg, zip, tmp, meta, folder, srv, remote, update_needed, i, resp,
                   site, prev, now, mvars, pvars, xvars>>

\* retry_get returns a 200 response; raise_for_status passes
GetOk ==
    /\ pc = "get" /\ i < cfg.retries_max
    /\ srv.found
    /\ resp' = [ok |-> TRUE, body |-> srv.body]
    /\ hist' = [hist EXCEPT !.log = Append(@, "GET"), !.attempts = @ + 1]
    /\ pc' = "open_tmp"
    /\ UNCHANGED <<cfg, zip, tmp, meta, folder, srv, remote, update_needed, i,
                   site, prev, now, mvars, pvars, xvars>>

\* retry_get when range(retries) is exhausted without return or raise:
\* it returns None and r.raise_for_status() raises AttributeError
GetNoResponse ==
    /\ pc = "get" /\ i >= cfg.retries_max
    /\ hist' = [hist EXCEPT !.fail = "noresponse", !.raised = "AttributeError"]
    /\ pc' = "raised"
    /\ UNCHANGED <<cfg, zip, tmp, meta, folder, srv, remote, update_needed, i, resp,
                   site, prev, now, mvars, pvars, xvars>>

\* with tmp.open("wb") as f: the temporary file is created or truncated
OpenTmp ==
    /\ pc = "open_tmp"
    /\ tmp' = ZipFile(resp.body, 0)
    /\ pc' = "stream"
    /\ UNCHANGED <<cfg, zip, meta, folder, srv, remote, update_needed, i, resp, site,
                   hist, prev, now, mvars, pvars, xvars>>

\* for chunk in r.iter_content(1 << 20): f.write(chunk)
StreamChunk ==
    /\ pc = "stream" /\ tmp.n < NChunks
    /\ tmp' = [tmp EXCEPT !.n = @ + 1]
    /\ UNCHANGED <<cfg, zip, meta, folder, srv, pc, remote, update_needed, i, resp,
                   site, hist, prev, now, mvars, pvars, xvars>>

\* iter_content or f.write raises: the with block closes f, the exception
\* leaves download_zip and sync_day
StreamRaises_ReplaceInFinally ==
    /\ pc = "stream" /\ tmp.n < NChunks
    /\ zip' = tmp /\ tmp' = NoZip
    /\ hist' = [hist EXCEPT !.fail = "stream", !.raised = "StreamError",
                            !.log = Append(@, "rename")]
    /\ pc' = "raised"
    /\ UNCHANGED <<cfg, meta, folder, srv, remote, update_needed, i, resp,
                   site, prev, now, mvars, pvars, xvars>>
StreamRaises ==
    /\ pc = "stream" /\ tmp.n < NChunks
    /\ hist' = [hist EXCEPT !.fail = "stream", !.raised = "StreamError"]
    /\ pc' = "raised"
    /\ UNCHANGED <<cfg, zip, tmp, meta, folder, srv, remote, update_needed, i, resp,
                   site, prev, now, mvars, pvars, xvars>>

\* the stream is exhausted: tmp.replace(zpath); return zpath
Replace ==
    /\ pc = "stream" /\ tmp.n = NChunks
    /\ zip' = tmp /\ tmp' = NoZip
    /\ Logged("rename")
    /\ pc' = "save_meta"
    /\ UNCHANGED <<cfg, meta, folder, srv, remote, update_needed, i, resp, site,
                   prev, now, mvars, pvars, xvars>>

\* save_meta(m, {...}) after download_zip returned (lines 129-134 and 144-149)
SaveMeta ==
    /\ pc = "save_meta"
    /\ meta' = NewMeta
    /\ Logged("save_meta")
    /\ pc' = IF site = 1 THEN "extract" ELSE "expand"
    /\ UNCHANGED <<cfg, zip, tmp, folder, srv, remote, update_needed, i, resp, site,
                   prev, now, mvars, pvars, xvars>>

\* if cfg["extract"]: ... (lines 139-143 and 156-161)
Extract_Always ==
    /\ pc = "extract"
    /\ IF ~cfg.extract
       THEN pc' = "done" /\ UNCHANGED <<zip, hist, site, i>>
       ELSE IF ~zip.ex
            THEN pc' = "get" /\ site' = 2 /\ i' = 0 /\ UNCHANGED <<zip, hist>>
            ELSE pc' = "expand" /\ UNCHANGED <<zip, hist, site, i>>
    /\ UNCHANGED <<cfg, tmp, meta, folder, srv, remote, update_needed, resp,
                   prev, now, mvars, pvars, xvars>>
Extract ==
    /\ pc = "extract"
    /\ IF ~cfg.extract
       THEN pc' = "done" /\ UNCHANGED <<zip, hist, site, i>>
       ELSE IF ~TifExists
       THEN IF ~zip.ex
            THEN pc' = "get" /\ site' = 2 /\ i' = 0 /\ UNCHANGED <<zip, hist>>
            ELSE pc' = "expand" /\ UNCHANGED <<zip, hist, site, i>>
       ELSE IF cfg.delete_zip_after_extract /\ zip.ex /\ ~update_needed
            THEN zip' = NoZip /\ Logged("remove_zip") /\ pc' = "done"
                 /\ UNCHANGED <<site, i>>
            ELSE pc' = "done" /\ UNCHANGED <<zip, hist, site, i>>
    /\ UNCHANGED <<cfg, tmp, meta, folder, srv, remote, update_needed, resp,
                   prev, now, mvars, pvars, xvars>>

\* expand_zip: zipfile.ZipFile(zpath).extractall(fldr)
Expand ==
    /\ pc = "expand"
    /\ IF zip.body = "bad"
       THEN /\ hist' = [hist EXCEPT !.fail = "expand", !.raised = "BadZipFile"]
            /\ pc' = "raised"
            /\ UNCHANGED folder
       ELSE /\ folder' = [ex |-> TRUE, tif |-> (folder.ex /\ folder.tif) \/ zip.body = "tif"]
            /\ Logged("extract")
            /\ pc' = "verify"
    /\ UNCHANGED <<cfg, zip, tmp, meta, srv, remote, update_needed, i, resp, site,
                   prev, now, mvars, pvars, xvars>>

\* lines 151-155: verification, then removal of the archive
Verify_Unchecked ==
    /\ pc = "verify"
    /\ IF FALSE
       THEN hist' = [hist EXCEPT !.flagged = TRUE] /\ UNCHANGED zip
       ELSE IF cfg.delete_zip_after_extract /\ zip.ex
       THEN zip' = NoZip /\ Logged("remove_zip")
       ELSE UNCHANGED <<zip, hist>>
    /\ pc' = "done"
    /\ UNCHANGED <<cfg, tmp, meta, folder, srv, remote, update_needed, i, resp, site,
                   prev, now, mvars, pvars, xvars>>
Verify ==
    /\ pc = "verify"
    /\ IF cfg.verify_tif /\ ~TifExists
       THEN hist' = [hist EXCEPT !.flagged = TRUE] /\ UNCHANGED zip
       ELSE IF cfg.delete_zip_after_extract /\ zip.ex
       THEN zip' = NoZip /\ Logged("remove_zip")
       ELSE UNCHANGED <<zip, hist>>
    /\ pc' = "done"
    /\ UNCHANGED <<cfg, tmp, meta, folder, srv, remote, update_needed, i, resp, site,
                   prev, now, mvars, pvars, xvars>>

Next ==
    \/ StartSync
    \/ Head404 \/ HeadError \/ HeadOk
    \/ Check
    \/ UnlinkZ \/ UnlinkM \/ Rmtree
    \/ GetRaises \/ GetBadStatus \/ GetOk \/ GetNoResponse
    \/ OpenTmp \/ StreamChunk \/ StreamRaises \/ Replace
    \/ SaveMeta
    \/ Extract \/ Expand \/ Verify

Spec == InitSync /\ [][Next]_vars

(***************************************************************************)
(* Properties of sync_day (checked under Spec)                             *)
(***************************************************************************)
Files == <<zip, tmp, meta, folder>>
FetchFails == {"connect", "status", "stream"}

\* C3: a call whose probe answered 404 changes no file of the date, sends no
\* GET, deletes nothing and extracts nothing.
C3_NotFoundNoEffect ==
    hist.head = "404" => (Files = hist.fs0 /\ hist.log = <<>> /\ pc = "skipped")

\* a 404 probe over an extracted date that has a sidecar
C3_Witness ==
    pc = "skipped" /\ hist.head = "404" /\ folder.ex /\ folder.tif /\ meta.st = "ok"

\* C4: the final archive name is absent or holds a complete body; it changes
\* only by deletion or by the rename of a completely written temporary file.
C4_FinalNameComplete ==
    /\ [](zip.ex => zip.n = NChunks)
    /\ [][zip' # zip =>
            \/ zip' = NoZip
            \/ (tmp.ex /\ tmp.n = NChunks /\ zip' = tmp /\ tmp' = NoZip)]_vars

\* the stream failed after the first chunk: the partial bytes are in the
\* temporary file only
C4_Witness ==
    pc = "raised" /\ hist.fail = "stream" /\ tmp.ex /\ tmp.n = 1 /\ ~zip.ex

\* failed fetch attempts of the running call
FetchFailures == Len(hist.excs) + (IF hist.fail = "stream" THEN 1 ELSE 0)

\* C5: with max_attempts = 3, a call that met at most two failed fetch attempts
\* (connection or body stream) ends with the archive renamed into place and no
\* temporary file.
C5_TwoFailuresThenArchive ==
    (/\ pc \in Terminal /\ cfg.retries_max = 3 /\ hist.attempts > 0
     /\ hist.fail \notin {"head", "expand", "status"}
     /\ FetchFailures <= 2)
    => (Count(hist.log, "rename") = 1 /\ ~tmp.ex)

\* C6 (state part): retry_get makes at most max_attempts attempts, none after
\* a success; the k-th failure below the budget is followed by a sleep of
\* backoff * k; the max_attempts-th failure is followed by no sleep and its
\* exception is the one raised.
C6_RetryInv ==
    /\ hist.attempts <= cfg.retries_max
    /\ hist.attempts <= Len(hist.excs) + 1
    /\ Len(hist.sleeps) = Len(hist.excs) - (IF hist.fail = "connect" THEN 1 ELSE 0)
    /\ \A k \in DOMAIN hist.sleeps : hist.sleeps[k] = cfg.retries_backoff * k
    /\ pc = "get" => (hist.attempts = Len(hist.excs) /\ i = Len(hist.excs))
    /\ pc \in {"open_tmp", "stream", "save_meta"} => hist.attempts = Len(hist.excs) + 1
    /\ hist.fail = "connect" =>
          /\ Len(hist.excs) = cfg.retries_max
          /\ hist.raised = hist.excs[Len(hist.excs)]
    /\ (cfg.retries_max > 0 /\ Len(hist.excs) = cfg.retries_max) =>
          (pc = "raised" /\ hist.fail = "connect")

\* C6: the state part always holds, and every pass of the loop that stays in
\* the loop moves i one step towards max_attempts (so the loop terminates).
C6_RetryBudget ==
    /\ []C6_RetryInv
    /\ [][(pc = "get" /\ pc' = "get") =>
             (i' = i + 1 /\ i' < cfg.retries_max)]_vars

\* three failed attempts with different exceptions: the third one is raised
C6_Witness ==
    /\ pc = "raised" /\ hist.fail = "connect" /\ cfg.retries_max = 3
    /\ hist.sleeps = <<2, 4>>
    /\ hist.excs[1] # hist.excs[3] /\ hist.raised = hist.excs[3]

\* C7: a fetch failure (connection, timeout, status, body stream) leaves
\* sync_day only when the attempt budget is used up.
C7_FailureOnlyAfterBudget ==
    (pc = "raised" /\ hist.fail \in FetchFails) => hist.attempts = cfg.retries_max

\* the remote fingerprint of this call equals that of the previous call on
\* every configured field
SameOnFields ==
    /\ remote.found /\ prev.remote.found
    /\ \A f \in {cfg.compare_fields[k] : k \in DOMAIN cfg.compare_fields} :
          Get(remote.d, f) = Get(prev.remote.d, f)

\* C8: after a call that returned normally, a call that sees the same remote
\* fingerprint on the configured fields sends no GET.
C8_NoGetWhenUnchanged ==
    (prev.ok /\ SameOnFields) => Count(hist.log, "GET") = 0

\* order of the effects of one call
Rank(e) ==
    CASE e \in {"unlink_zip", "unlink_meta", "rmtree"} -> 1
      [] e = "GET" -> 2
      [] e = "rename" -> 3
      [] e = "save_meta" -> 4
      [] e = "extract" -> 5
      [] e = "remove_zip" -> 6

\* C9 (state part): the effects of a call are ordered delete-stale, GET,
\* rename, save_meta; a save_meta directly follows a rename; a call that
\* failed in the fetch wrote no sidecar: none exists if an update was needed,
\* else the old one is unchanged.
C9_MetaInv ==
    /\ \A j, k \in DOMAIN hist.log : j < k => Rank(hist.log[j]) <= Rank(hist.log[k])
    /\ \A k \in DOMAIN hist.log :
          hist.log[k] = "save_meta" => (k > 1 /\ hist.log[k - 1] = "rename")
    /\ (pc = "raised" /\ hist.fail \in FetchFails \cup {"noresponse"}) =>
          /\ Count(hist.log, "save_meta") = 0
          /\ update_needed => meta = NoFile
          /\ ~update_needed => meta = hist.fs0[3]

\* C9: the state part always holds, and the sidecar changes only by deletion
\* or by a write of the remote fingerprint made while the complete archive is
\* under its final name.
C9_MetaAfterDownload ==
    /\ []C9_MetaInv
    /\ [][meta' # meta =>
            \/ meta' = NoFile
            \/ /\ zip.ex /\ zip.n = NChunks /\ ~tmp.ex
               /\ meta'.st = "ok"
               /\ \A f \in FpKeys : Get(meta'.d, f) = Get(remote.d, f)]_vars

\* an update of a date that had a sidecar fails in the body stream: the old
\* sidecar is gone and no new one exists
C9_Witness ==
    /\ pc = "raised" /\ hist.fail = "stream" /\ update_needed
    /\ hist.fs0[3].st = "ok" /\ meta = NoFile

\* C28: the archive is removed after extraction, or because the folder is
\* already there, only while the expected decoded file exists.
C28_RemoveOnlyWhenDecoded ==
    [][Count(hist'.log, "remove_zip") > Count(hist.log, "remove_zip") => TifExists]_vars

C31_StaleDeletedBeforeFetch ==
    /\ (pc = "raised" /\ update_needed /\ hist.fail \in FetchFails \cup {"noresponse"}) =>
          /\ zip = NoZip /\ meta = NoFile /\ ~folder.ex
          /\ hist.fs0[1].ex => Count(hist.log, "unlink_zip") = 1
          /\ hist.fs0[3].st # "absent" => Count(hist.log, "unlink_meta") = 1
          /\ hist.fs0[4].ex => Count(hist.log, "rmtree") = 1
    /\ (hist.head = "ok" /\ hist.fs0[3] = NoFile
           /\ pc \notin {"idle", "head", "check"}) => update_needed

\* the second call found the archive, the sidecar and the extracted raster
\* of the first, needed an update, and every GET attempt failed
C31_Witness ==
    /\ pc = "raised" /\ now = 2 /\ update_needed /\ hist.fail = "connect"
    /\ hist.attempts = cfg.retries_max /\ cfg.retries_max >= 2
    /\ hist.fs0[1].ex /\ hist.fs0[3].st = "ok" /\ hist.fs0[4].ex /\ hist.fs0[4].tif
    /\ zip = NoZip /\ meta = NoFile /\ ~folder.ex

\* C30 (state part): nothing is extracted and no folder exists with extract
\* off; a call extracts at most once.
C30_ExtractInv ==
    /\ ~cfg.extract => (~folder.ex /\ Count(hist.log, "extract") = 0)
    /\ Count(hist.log, "extract") <= 1
\* C30: at line 139 the call goes on to extraction exactly when extract is set
\* and the expected decoded file is absent; it extracts only then; with the
\* decoded file present the call ends there without GET or extraction.
C30_ExtractIffWantedAndAbsent ==
    /\ []C30_ExtractInv
    /\ [][pc = "extract" =>
            /\ pc' \in {"expand", "get"} <=> (cfg.extract /\ ~TifExists)
            /\ pc' \notin {"expand", "get"} => (pc' = "done" /\ folder' = folder)]_vars
    /\ [][Count(hist'.log, "extract") > Count(hist.log, "extract") =>
            (cfg.extract /\ ~TifExists /\ pc = "expand")]_vars
    /\ [][(pc = "expand" /\ pc' = "verify") =>
            Count(hist'.log, "extract") = Count(hist.log, "extract") + 1]_vars

\* a second call over an extracted date whose fingerprint did not change:
\* no GET, no extraction
C30_Witness ==
    /\ pc = "done" /\ now = 2 /\ cfg.extract /\ ~update_needed /\ TifExists
    /\ Count(hist.log, "GET") = 0 /\ Count(hist.log, "extract") = 0
    /\ hist.fs0[4].tif

(***************************************************************************)
(* SpecPrune: cleanup_old_data(cfg, keep) as called by main                *)
(***************************************************************************)
MaxDay == 4         \* day numbers 0..MaxDay for today and for embedded dates
MaxKeep == 2        \* largest cfg["retention_days"] drawn
MaxEntries == 2     \* directory entries in rainfall_dir

Days == 0..MaxDay

\* The shapes of names in rainfall_dir: pre = the name starts with PREFIX and
\* eight digits, suf = what follows the digits, dir = the entry is a directory.
Shapes ==
    {[pre |-> TRUE, suf |-> ".zip", dir |-> FALSE],
     [pre |-> TRUE, suf |-> ".meta.json", dir |-> FALSE],
     [pre |-> TRUE, suf |-> "", dir |-> TRUE],
     [pre |-> TRUE, suf |-> ".zip.tmp", dir |-> FALSE],
     [pre |-> FALSE, suf |-> ".zip", dir |-> FALSE]}
\* valid = the eight digits are a calendar date (strptime accepts them);
\* date = that date as a day number
DirEntries ==
    {[shape |-> sh, valid |-> TRUE, date |-> dd] : sh \in Shapes, dd \in Days}
    \cup {[shape |-> sh, valid |-> FALSE, date |-> 0] : sh \in Shapes}

\* main, line 208: keep = { today - timedelta(days=delta) for delta in range(1, keep_window + 1) }
KeepDates_ShortRange(t, w) == {t - delta : delta \in 1..(w - 1)}
KeepDates(t, w) == {t - delta : delta \in 1..w}

\* name_re.match(p.name) or file_re.match(p.name)
NameMatches(p) == p.shape.pre /\ p.shape.suf \in {"", ".zip", ".meta.json"}
\* d is set: a pattern matched and strptime parsed the digits
HasDate(p) == NameMatches(p) /\ p.valid
\* if d and d not in keep_dates
ToDelete(p) == HasDate(p) /\ p.date \notin KeepDates(today, keep_window)

\* the directory listings of at most n entries
RECURSIVE Listings(_)
Listings(n) ==
    IF n = 0 THEN {{}}
    ELSE Listings(n - 1) \cup {E \cup {p} : E \in Listings(n - 1), p \in DirEntries}

InitPrune ==
    /\ today \in Days
    /\ keep_window \in 0..MaxKeep
    /\ entries \in Listings(MaxEntries)
    /\ todo = entries
    /\ plog = [start |-> entries, removed |-> {}, failed |-> {}]
    /\ MetaIdle /\ SyncIdle
    /\ BatchIdle /\ DateIdle /\ AggIdle /\ PipeIdle /\ ParIdle
    /\ TableIdle /\ HistIdle

\* the loop body for an entry that is kept (no date, or date in keep_dates)
PruneSkip ==
    /\ \E p \in todo :
          /\ ~ToDelete(p)
          /\ todo' = todo \ {p}
    /\ UNCHANGED <<entries, today, keep_window, plog, mvars, svars, xvars>>

\* the loop body for an entry that is deleted: shutil.rmtree(p) or p.unlink()
PruneRemove ==
    /\ \E p \in todo :
          /\ ToDelete(p)
          /\ todo' = todo \ {p}
          /\ entries' = entries \ {p}
          /\ plog' = [plog EXCEPT !.removed = @ \cup {p}]
    /\ UNCHANGED <<today, keep_window, mvars, svars, xvars>>

\* the loop body for an entry whose deletion raises: except Exception, print
PruneFail_Aborts ==
    /\ \E p \in todo :
          /\ ToDelete(p)
          /\ todo' = {}
          /\ plog' = [plog EXCEPT !.failed = @ \cup {p}]
    /\ UNCHANGED <<entries, today, keep_window, mvars, svars, xvars>>
PruneFail ==
    /\ \E p \in todo :
          /\ ToDelete(p)
          /\ todo' = todo \ {p}
          /\ plog' = [plog EXCEPT !.failed = @ \cup {p}]
    /\ UNCHANGED <<entries, today, keep_window, mvars, svars, xvars>>

NextPrune == PruneSkip \/ PruneRemove \/ PruneFail
SpecPrune == InitPrune /\ [][NextPrune]_vars

\* an archive, sidecar or extracted folder of the date layout
IsCacheEntry(p) ==
    /\ p.shape.pre /\ p.valid
    /\ \/ (p.shape.suf \in {".zip", ".meta.json"} /\ ~p.shape.dir)
       \/ (p.shape.suf = "" /\ p.shape.dir)

\* C10: after prune with retention R and today T, every archive, sidecar and
\* extracted folder dated before T - R is gone unless its deletion failed, and
\* every entry dated T - R .. T - 1 is still there.
C10_PruneWindow ==
    todo = {} =>
        \A p \in plog.start :
           /\ (IsCacheEntry(p) /\ p.date < today - keep_window) =>
                 (p \notin entries \/ p \in plog.failed)
           /\ (p.valid /\ p.date >= today - keep_window /\ p.date <= today - 1) =>
                 (p \in entries /\ p \notin plog.removed /\ p \notin plog.failed)

\* one archive before the window was removed, one on the oldest day of the
\* window was kept
C10_Witness ==
    /\ todo = {} /\ keep_window = 2
    /\ \E p \in plog.removed : IsCacheEntry(p) /\ p.date < today - keep_window
    /\ \E p \in entries : IsCacheEntry(p) /\ p.date = today - keep_window

\* C26: a deletion that fails is reported and stops nothing: every entry to
\* delete is still to come, removed or reported as failed; a failed entry
\* stays on disk, a removed one is gone; the pass can always take its next
\* entry, and returns with every entry examined.
C26_FailureDoesNotStop ==
    /\ \A p \in plog.start :
          ToDelete(p) => (p \in todo \/ p \in plog.removed \/ p \in plog.failed)
    /\ plog.removed \cap plog.failed = {}
    /\ plog.failed \subseteq entries
    /\ plog.removed \cap entries = {}
    /\ (plog.removed \cup plog.failed) \cap todo = {}
    /\ todo # {} => ENABLED NextPrune

\* the pass returned: one deletion failed, another entry was deleted
C26_Witness ==
    /\ todo = {}
    /\ plog.failed # {} /\ plog.removed # {}

(***************************************************************************)
(* SpecBatch: main of download_prism_daily.py                              *)
(***************************************************************************)
MaxOffset == 3      \* largest start_offset_days / end_offset_days drawn

BatchCfgs == [start_offset_days : 0..MaxOffset, end_offset_days : 0..MaxOffset,
              retention_days : 0..MaxKeep]

InitBatch ==
    /\ b_cfg \in BatchCfgs
    /\ b_today \in Days
    /\ b_delta = b_cfg.start_offset_days
    /\ b_pc = "loop"
    /\ b_calls = <<>> /\ b_out = <<>> /\ b_keep = {}
    /\ MetaIdle /\ SyncIdle /\ PruneIdle /\ DateIdle /\ AggIdle /\ PipeIdle /\ ParIdle
    /\ TableIdle /\ HistIdle

\* the date one day after the one of the current pass
BatchDate_DayLater == b_today - b_delta + 1
\* the date of the current pass: d = today - dt.timedelta(days=delta)
BatchDate == b_today - b_delta

\* the final status of the HEAD request (redirects are followed); 0 = no
\* response, requests.head itself raised
HeadAnswers == {0, 200, 403, 404, 500}

\* head_remote, lines 53-63: None on 404, raise_for_status raises on the other
\* 4xx and 5xx, otherwise the dict of headers
head_remote_AnyClientError(st) ==
    IF st = 0 THEN "raise"
    ELSE IF st >= 400 /\ st < 500 THEN "None"
    ELSE IF st >= 400 /\ st < 600 THEN "raise"
    ELSE "dict"
head_remote(st) ==
    IF st = 0 THEN "raise"
    ELSE IF st = 404 THEN "None"
    ELSE IF st >= 400 /\ st < 600 THEN "raise"
    ELSE "dict"

\* one pass of the for loop in which sync_day(cfg, d) returns: at lines
\* 114-117 when head_remote gave None, at its end otherwise
SyncReturns ==
    /\ b_pc = "loop" /\ b_delta <= b_cfg.end_offset_days
    /\ \E st \in HeadAnswers :
          /\ head_remote(st) # "raise"
          /\ b_calls' = Append(b_calls,
                 [date |-> BatchDate, head |-> st,
                  how |-> IF head_remote(st) = "None" THEN "skipped" ELSE "done"])
    /\ b_delta' = b_delta + 1
    /\ UNCHANGED <<b_cfg, b_today, b_pc, b_out, b_keep, mvars, svars, pvars, tvars, hvars,
                   dvars, avars, fvars, wvars>>

\* one pass of the for loop in which sync_day raises, in head_remote or after
\* it: except Exception, print
SyncRaises_Aborts ==
    /\ b_pc = "loop" /\ b_delta <= b_cfg.end_offset_days
    /\ \E st \in HeadAnswers :
          /\ head_remote(st) # "None"
          /\ b_calls' = Append(b_calls, [date |-> BatchDate, head |-> st, how |-> "raised"])
    /\ b_pc' = "aborted"
    /\ UNCHANGED <<b_cfg, b_today, b_delta, b_out, b_keep, mvars, svars, pvars, tvars, hvars,
                   dvars, avars, fvars, wvars>>
SyncRaises ==
    /\ b_pc = "loop" /\ b_delta <= b_cfg.end_offset_days
    /\ \E st \in HeadAnswers :
          /\ head_remote(st) # "None"
          /\ b_calls' = Append(b_calls, [date |-> BatchDate, head |-> st, how |-> "raised"])
    /\ b_out' = Append(b_out, [tag |-> "[ERR ]", date |-> BatchDate])
    /\ b_delta' = b_delta + 1
    /\ UNCHANGED <<b_cfg, b_today, b_pc, b_keep, mvars, svars, pvars, tvars, hvars,
                   dvars, avars, fvars, wvars>>

\* range(start, end + 1) is exhausted: keep is built and cleanup_old_data called
CallCleanup ==
    /\ b_pc = "loop" /\ b_delta > b_cfg.end_offset_days
    /\ b_keep' = KeepDates(b_today, b_cfg.retention_days)
    /\ b_out' = Append(b_out, [tag |-> "[INFO]", date |-> b_today])
    /\ b_pc' = "done"
    /\ UNCHANGED <<b_cfg, b_today, b_delta, b_calls, mvars, svars, pvars, tvars, hvars,
                   dvars, avars, fvars, wvars>>

NextBatch == SyncReturns \/ SyncRaises \/ CallCleanup
SpecBatch == InitBatch /\ [][NextBatch]_vars

\* the dates today - start_offset_days .. today - end_offset_days
BatchDates == {b_today - k : k \in b_cfg.start_offset_days..b_cfg.end_offset_days}
CallsFor(d) == {k \in DOMAIN b_calls : b_calls[k].date = d}

\* C11: the driver is always in its loop or done; no date is synced twice and
\* only dates of the offset range are synced; when it is done every date of
\* the range was synced exactly once, whatever calls raised, and cleanup was
\* called.
C11_EveryDateOnce ==
    /\ b_pc \in {"loop", "done"}
    /\ \A k \in DOMAIN b_calls :
          b_calls[k].date \in BatchDates /\ Cardinality(CallsFor(b_calls[k].date)) = 1
    /\ b_pc = "done" =>
          /\ \A d \in BatchDates : Cardinality(CallsFor(d)) = 1
          /\ b_out # <<>> /\ b_out[Len(b_out)].tag = "[INFO]"

\* the first of three calls raised, the later ones were still made, then
\* cleanup ran
C11_Witness ==
    /\ b_pc = "done" /\ Len(b_calls) = 3
    /\ b_calls[1].how = "raised" /\ b_calls[3].how = "done"

\* C25: a call returns at the not-found exit exactly when its HEAD request was
\* answered 404, and then nothing is raised; every other answer that is not a
\* success (no answer, 4xx, 5xx) makes the call raise; the raise is caught and
\* reported for that date and the driver goes on: when it is done every date of
\* the range was synced.
C25_NotFoundOnly404 ==
    /\ \A k \in DOMAIN b_calls :
          /\ b_calls[k].how = "skipped" <=> b_calls[k].head = 404
          /\ (b_calls[k].head # 404 /\ b_calls[k].head \notin 200..399)
                => b_calls[k].how = "raised"
    /\ Cardinality({k \in DOMAIN b_calls : b_calls[k].how = "raised"})
          = Cardinality({k \in DOMAIN b_out : b_out[k].tag = "[ERR ]"})
    /\ b_pc = "loop" => Len(b_calls) = b_delta - b_cfg.start_offset_days
    /\ b_pc = "done" => \A d \in BatchDates : CallsFor(d) # {}

\* a date answered 500 raised, the next one answered 404 was skipped, the
\* third was synced, and the driver finished
C25_Witness ==
    /\ b_pc = "done" /\ Len(b_calls) = 3
    /\ b_calls[1].head = 500 /\ b_calls[1].how = "raised"
    /\ b_calls[2].head = 404 /\ b_calls[2].how = "skipped"
    /\ b_calls[3].head = 200 /\ b_calls[3].how = "done"

\* C38: when start_offset_days >= 1 and end_offset_days <= retention_days,
\* every date synced in the run is in the keep set the same run passes to
\* cleanup_old_data, which deletes nothing of a date in that set.
C38_SyncedDatesKept ==
    (b_pc = "done" /\ b_cfg.start_offset_days >= 1
        /\ b_cfg.end_offset_days <= b_cfg.retention_days) =>
        /\ b_keep = KeepDates(b_today, b_cfg.retention_days)
        /\ \A k \in DOMAIN b_calls : b_calls[k].date \in b_keep

\* offsets 1..2 with a retention of 2 days: both dates were synced and kept
C38_Witness ==
    /\ b_pc = "done"
    /\ b_cfg.start_offset_days = 1 /\ b_cfg.end_offset_days = 2
    /\ b_cfg.retention_days = 2
    /\ Len(b_calls) = 2 /\ b_calls[1].how = "done" /\ b_calls[2].how = "done"
    /\ {b_calls[1].date, b_calls[2].date} = b_keep


(***************************************************************************)
(* SpecDate: _available_dates, _resolve_target_date, _resolve_day_path,    *)
(* _collect_day_paths of predict_daily_triple.py                           *)
(***************************************************************************)
MaxStore == 2       \* entries in RAIN_DIR
MaxWindow == 3      \* largest window argument drawn

\* Entries of RAIN_DIR by kind: a folder prism_ppt_us_30s_<stamp> holding a
\* .tif or holding none, <stamp>.zip holding a .tif member or holding none,
\* a bare <stamp>.tif, <stamp>.meta.json, and a file without the prefix.
\* valid = the stamp is a calendar date.
RainKinds == {"folder_tif", "folder_empty", "zip", "zip_notif", "tif", "meta", "foreign"}
RainEntries ==
    {[kind |-> kd, valid |-> TRUE, date |-> dd] : kd \in RainKinds, dd \in Days}
    \cup {[kind |-> "zip", valid |-> FALSE, date |-> 0]}

\* a directory listing: no two entries share a name
RECURSIVE Stores(_)
Stores(n) ==
    IF n = 0 THEN {{}}
    ELSE Stores(n - 1) \cup
         {E \cup {e} : E \in Stores(n - 1), e \in RainEntries}
NameClash(E) ==
    \E e1, e2 \in E : /\ e1 # e2 /\ e1.date = e2.date
                      /\ \/ {e1.kind, e2.kind} = {"folder_tif", "folder_empty"}
                         \/ {e1.kind, e2.kind} = {"zip", "zip_notif"}

\* _available_dates: the stem (file) or name (directory) is the prefix
\* followed by text strptime("%Y%m%d") accepts
StemIsDate(e) ==
    e.kind \in {"folder_tif", "folder_empty", "zip", "zip_notif", "tif"} /\ e.valid
AvailableSet(store) == {e.date : e \in {x \in store : StemIsDate(x)}}

SetMin(S) == CHOOSE x \in S : \A y \in S : x <= y
\* sorted(dates)
RECURSIVE Sorted(_)
Sorted(S) == IF S = {} THEN <<>> ELSE <<SetMin(S)>> \o Sorted(S \ {SetMin(S)})

\* a returned date, or the FileNotFoundError
Returned(dd) == [ok |-> TRUE, date |-> dd]
NoData == [ok |-> FALSE, date |-> 0]

\* _resolve_target_date: if requested < dates[0]: return dates[0]
SnapForward_Latest(dates) == dates[Len(dates)]
SnapForward(dates) == dates[1]

\* _resolve_target_date: for day in reversed(dates): if day <= requested: return day
RECURSIVE ReversedLoop(_, _, _)
ReversedLoop_Strict(dates, requested, k) ==
    IF k < 1 THEN dates[Len(dates)]
    ELSE IF dates[k] < requested THEN dates[k]
    ELSE ReversedLoop(dates, requested, k - 1)
ReversedLoop(dates, requested, k) ==
    IF k < 1 THEN dates[Len(dates)]
    ELSE IF dates[k] <= requested THEN dates[k]
    ELSE ReversedLoop(dates, requested, k - 1)

resolve_target_date(store, requested) ==
    LET dates == Sorted(AvailableSet(store))
    IN  IF dates = <<>> THEN NoData
        ELSE IF requested < dates[1] THEN Returned(SnapForward(dates))
        ELSE Returned(ReversedLoop(dates, requested, Len(dates)))

\* the store has an entry of that kind for the day
Has(store, kd, day) == [kind |-> kd, valid |-> TRUE, date |-> day] \in store

\* _resolve_day_path: folder with a .tif, then the archive if it exists
\* (its members are not looked at), then the bare file
resolve_day_path(store, day) ==
    IF Has(store, "folder_tif", day) THEN "folder"
    ELSE IF Has(store, "zip", day) \/ Has(store, "zip_notif", day) THEN "zip"
    ELSE IF Has(store, "tif", day) THEN "tif"
    ELSE "none"

\* rainfall_features._resolve_day_path: folder with a .tif, then the first
\* .tif member of the archive, then the bare file
rf_resolve_day_path(store, day) ==
    IF Has(store, "folder_tif", day) THEN "folder"
    ELSE IF Has(store, "zip", day) THEN "zip"
    ELSE IF Has(store, "tif", day) THEN "tif"
    ELSE "none"

\* _collect_day_paths: days = [resolved - i for i in range(window - 1, -1, -1)]
WindowDays_OneMore(resolved, window) == [k \in 1..(window + 1) |-> resolved - window + k - 1]
WindowDays(resolved, window) == [k \in 1..window |-> resolved - (window - k)]

collect_day_paths(store, target, window) ==
    LET days == WindowDays(resolve_target_date(store, target).date, window)
    IN  [k \in DOMAIN days |-> [day |-> days[k], path |-> resolve_day_path(store, days[k])]]

InitDate ==
    /\ d_store \in {E \in Stores(MaxStore) : ~NameClash(E)}
    /\ d_requested \in (-1)..(MaxDay + 1)
    /\ d_window \in 1..MaxWindow
    /\ d_pc = "call"
    /\ d_resolved = NoData /\ d_again = NoData /\ d_paths = <<>>
    /\ MetaIdle /\ SyncIdle /\ PruneIdle /\ BatchIdle /\ AggIdle /\ PipeIdle /\ ParIdle
    /\ TableIdle /\ HistIdle

\* _resolve_target_date(requested)
Resolve ==
    /\ d_pc = "call"
    /\ d_resolved' = resolve_target_date(d_store, d_requested)
    /\ d_pc' = IF d_resolved'.ok THEN "resolved" ELSE "raised"
    /\ UNCHANGED <<d_store, d_requested, d_window, d_again, d_paths,
                   mvars, svars, pvars, tvars, hvars, bvars, avars, fvars, wvars>>

\* _resolve_target_date applied to the date it returned
ResolveAgain ==
    /\ d_pc = "resolved"
    /\ d_again' = resolve_target_date(d_store, d_resolved.date)
    /\ d_pc' = "again"
    /\ UNCHANGED <<d_store, d_requested, d_window, d_resolved, d_paths,
                   mvars, svars, pvars, tvars, hvars, bvars, avars, fvars, wvars>>

\* _collect_day_paths(requested, window), as main calls it
Collect ==
    /\ d_pc = "again"
    /\ d_paths' = collect_day_paths(d_store, d_requested, d_window)
    /\ d_pc' = "collected"
    /\ UNCHANGED <<d_store, d_requested, d_window, d_resolved, d_again,
                   mvars, svars, pvars, tvars, hvars, bvars, avars, fvars, wvars>>

\* rainfall_features._load_stack(resolved, window), as compute_feature_arrays
\* calls it: the paths it resolves, or FileNotFoundError when the resolved day
\* has none
LoadStackPaths ==
    /\ d_pc = "again"
    /\ LET days == WindowDays(d_resolved.date, d_window)
       IN  IF rf_resolve_day_path(d_store, d_resolved.date) = "none"
           THEN d_paths' = <<>> /\ d_pc' = "rf_raised"
           ELSE /\ d_paths' = [k \in DOMAIN days |->
                       [day |-> days[k], path |-> rf_resolve_day_path(d_store, days[k])]]
                /\ d_pc' = "rf_collected"
    /\ UNCHANGED <<d_store, d_requested, d_window, d_resolved, d_again,
                   mvars, svars, pvars, tvars, hvars, bvars, avars, fvars, wvars>>

NextDate == Resolve \/ ResolveAgain \/ Collect \/ LoadStackPaths
SpecDate == InitDate /\ [][NextDate]_vars

\* the dates of the dated raster entries of the store
Avail == AvailableSet(d_store)

C16_ResolveIdempotent ==
    d_pc \in {"again", "collected"} => (d_again.ok /\ d_again = d_resolved)

\* a request that was snapped back to an older date, resolved again
C16_Witness ==
    d_pc = "again" /\ d_resolved.date < d_requested /\ Cardinality(Avail) = 2
    /\ d_again = d_resolved

\* C17 as stated: the window is the N days ending at the date asked for.
C17_WindowEndsAtRequested ==
    d_pc = "collected" =>
        /\ Len(d_paths) = d_window
        /\ \A k \in DOMAIN d_paths : d_paths[k].day = d_requested - d_window + k

\* C17 amended: with a non-empty store the window is the N consecutive days
\* ending at the resolved date, oldest first, whatever days have no raster;
\* it ends at the date asked for when that date is available; with an empty
\* store the call fails.
C17_WindowEndsAtResolved ==
    /\ d_pc = "raised" <=> (d_pc # "call" /\ Avail = {})
    /\ d_pc = "collected" =>
          /\ Len(d_paths) = d_window
          /\ \A k \in DOMAIN d_paths : d_paths[k].day = d_resolved.date - d_window + k
          /\ d_requested \in Avail => d_paths[d_window].day = d_requested

\* a window of three days ending at a resolved date that is not the date
\* asked for, with a day that has no raster
C17_Witness ==
    /\ d_pc = "collected" /\ d_window = 3 /\ d_resolved.date # d_requested
    /\ d_paths[3].day = d_resolved.date /\ d_paths[1].path = "none"

\* the path the lookup order gives a day: the raster of the extracted folder
\* if it holds one, else the archive if it exists, else the bare file
ByPriority(day) ==
    IF Has(d_store, "folder_tif", day) THEN "folder"
    ELSE IF Has(d_store, "zip", day) \/ Has(d_store, "zip_notif", day) THEN "zip"
    ELSE IF Has(d_store, "tif", day) THEN "tif"
    ELSE "none"

\* C33: every day of a collected window has the path of the lookup order:
\* folder raster, else archive-internal path if the archive exists, else bare
\* file, else absent; a folder without a raster falls through.
C33_PathPriority ==
    d_pc \in {"collected", "rf_collected"} =>
        \A k \in DOMAIN d_paths : d_paths[k].path = ByPriority(d_paths[k].day)

\* C37: whenever resolve_target_date succeeds, the newest entry of the window
\* collected for that date has a path: it is never absent.
C37_NewestNeverAbsent ==
    d_pc = "collected" =>
        /\ d_paths[Len(d_paths)].day = d_resolved.date
        /\ d_paths[Len(d_paths)].path # "none"

(***************************************************************************)
(* SpecAgg: the window aggregates of one cell, as _compute_rain_features   *)
(* of predict_daily_triple.py and compute_feature_arrays of                *)
(* rainfall_features.py compute them                                       *)
(***************************************************************************)
MaxPad == 30        \* older layers of one repeated value
MaxTail == 3        \* newest layers, each value free

\* np.nan
NaN == -2
\* the values of one cell in one layer (mm), NaN = missing
RainVals == {NaN, 0, 2, 5}
\* ds.nodata of a raster that declares one
NoDataValue == -9999
\* the values a raster holds at one cell
RawVals == RainVals \cup {NoDataValue}

RECURSIVE Tails(_)
Tails(n) ==
    IF n = 0 THEN {<<>>}
    ELSE Tails(n - 1) \cup
         {Append(t, v) : t \in {x \in Tails(n - 1) : Len(x) = n - 1}, v \in RawVals}
\* the column of the stack at one cell, oldest layer first, never empty
Stacks ==
    {[k \in 1..m |-> v] \o t :
        v \in RawVals, m \in 0..MaxPad, t \in Tails(MaxTail) \ {<<>>}}

\* the oldest n layers in place of the newest
Subset_Oldest(stack, n) ==
    IF Len(stack) >= n THEN SubSeq(stack, 1, n) ELSE stack

\* stack[-n:] if stack.shape[0] >= n else stack
Subset(stack, n) ==
    IF Len(stack) >= n THEN SubSeq(stack, Len(stack) - n + 1, Len(stack)) ELSE stack

\* stack[-min(days, stack.shape[0]):]
LastDays(stack, days) ==
    LET n == IF days < Len(stack) THEN days ELSE Len(stack)
    IN  SubSeq(stack, Len(stack) - n + 1, Len(stack))

\* np.nansum(axis=0): NaN counts as zero
RECURSIVE nansum(_)
nansum(x) ==
    IF x = <<>> THEN 0
    ELSE (IF Head(x) = NaN THEN 0 ELSE Head(x)) + nansum(Tail(x))

\* np.nanmax(axis=0): the largest non-NaN value, NaN for an all-NaN slice
RECURSIVE nanmax(_)
nanmax(x) ==
    IF x = <<>> THEN NaN
    ELSE LET rest == nanmax(Tail(x))
         IN  IF Head(x) = NaN THEN rest
             ELSE IF rest = NaN \/ rest < Head(x) THEN Head(x) ELSE rest

\* np.isnan(subset).all(axis=0)
AllNaN(x) == \A k \in DOMAIN x : x[k] = NaN

\* _compute_rain_features._sum_last
pdt_sum_last(stack, n) == nansum(Subset(stack, n))
\* _compute_rain_features._max_last: out[all_nan] = np.nan
pdt_max_last(stack, n) ==
    LET subset == Subset(stack, n)
    IN  IF AllNaN(subset) THEN NaN ELSE nanmax(subset)

\* ndarray.sum / ndarray.max: a NaN in the slice makes the result NaN
HasNaN(x) == \E k \in DOMAIN x : x[k] = NaN
\* rainfall_features._sum_last
rf_sum_last(stack, days) ==
    IF HasNaN(LastDays(stack, days)) THEN NaN ELSE nansum(LastDays(stack, days))
\* rainfall_features._max_last
rf_max_last(stack, days) ==
    IF HasNaN(LastDays(stack, days)) THEN NaN ELSE nanmax(LastDays(stack, days))

\* _sample_rainfall, lines 167-169: np.where(arr == nodata, np.nan, arr)
\* when the raster declares a nodata value
nodata_to_nan(arr, nodata) ==
    IF nodata # None THEN [k \in DOMAIN arr |-> IF arr[k] = nodata THEN NaN ELSE arr[k]]
    ELSE arr

InitAgg ==
    /\ a_raw \in Stacks
    /\ a_nodata \in {None, NoDataValue}
    /\ a_stack = <<>>
    /\ a_feats = <<>>
    /\ a_pc = "start"
    /\ MetaIdle /\ SyncIdle /\ PruneIdle /\ BatchIdle /\ DateIdle /\ PipeIdle /\ ParIdle
    /\ TableIdle /\ HistIdle

\* predict_daily_triple._sample_rainfall at one cell: the sampled values with
\* nodata made NaN are stacked, then _compute_rain_features(stack)
ComputeRainFeatures ==
    /\ a_pc = "start"
    /\ a_stack' = nodata_to_nan(a_raw, a_nodata)
    /\ a_feats' = [R1d |-> a_stack'[Len(a_stack')],
                   R3d |-> pdt_sum_last(a_stack', 3),
                   R7d |-> pdt_sum_last(a_stack', 7),
                   R30d |-> pdt_sum_last(a_stack', 30),
                   Max_Rainfall_3day |-> pdt_max_last(a_stack', 3),
                   Max_Rainfall_30day |-> pdt_max_last(a_stack', 30)]
    /\ a_pc' = "pdt"
    /\ UNCHANGED <<a_raw, a_nodata, mvars, svars, pvars, tvars, hvars, bvars, dvars, fvars, wvars>>

\* rainfall_features.compute_feature_arrays at one cell: _load_stack stacks
\* src.read(1).astype(float32) of each day as it is, then the aggregates
ComputeFeatureArrays ==
    /\ a_pc = "start"
    /\ a_stack' = a_raw
    /\ a_feats' = [R1d |-> a_stack'[Len(a_stack')],
                   R3d |-> rf_sum_last(a_stack', 3),
                   R7d |-> rf_sum_last(a_stack', 7),
                   R30d |-> rf_sum_last(a_stack', 30),
                   Max_Rainfall_3day |-> rf_max_last(a_stack', 3),
                   Max_Rainfall_30day |-> rf_max_last(a_stack', 30)]
    /\ a_pc' = "rf"
    /\ UNCHANGED <<a_raw, a_nodata, mvars, svars, pvars, tvars, hvars, bvars, dvars, fvars, wvars>>

NextAgg == ComputeRainFeatures \/ ComputeFeatureArrays
SpecAgg == InitAgg /\ [][NextAgg]_vars

\* the first layer of the trailing min(n, window length) layers
SliceFrom(n) == IF Len(a_stack) > n THEN Len(a_stack) - n + 1 ELSE 1
\* the non-missing values of the trailing min(n, window length) layers
Present(n) == {k \in SliceFrom(n)..Len(a_stack) : a_stack[k] # NaN}
RECURSIVE SumAt(_)
SumAt(K) ==
    IF K = {} THEN 0
    ELSE LET k == CHOOSE x \in K : TRUE IN a_stack[k] + SumAt(K \ {k})

\* C19: R1d is the newest layer and R3d, R7d, R30d are the sums of the
\* non-missing values of the trailing min(N, window length) layers; values
\* [2, 0, 5] give R3d = 7 and R1d = 5; an all-zero window gives R30d = 0.
C19_SumsIgnoreMissing ==
    a_pc \in {"pdt", "rf"} =>
        /\ a_feats.R1d = a_stack[Len(a_stack)]
        /\ a_feats.R3d = SumAt(Present(3))
        /\ a_feats.R7d = SumAt(Present(7))
        /\ a_feats.R30d = SumAt(Present(30))
        /\ a_stack = <<2, 0, 5>> => (a_feats.R3d = 7 /\ a_feats.R1d = 5)
        /\ (\A k \in DOMAIN a_stack : a_stack[k] = 0) => a_feats.R30d = 0

\* C20: Max_3day and Max_30day are the maximum of the non-missing values of
\* the trailing min(N, window length) layers, and missing when that slice is
\* entirely missing.
C20_MaxIgnoresMissing ==
    a_pc \in {"pdt", "rf"} =>
        \A n \in {3, 30} :
            LET out == IF n = 3 THEN a_feats.Max_Rainfall_3day
                       ELSE a_feats.Max_Rainfall_30day
            IN  IF Present(n) = {} THEN out = NaN
                ELSE /\ \E k \in Present(n) : out = a_stack[k]
                     /\ \A k \in Present(n) : a_stack[k] <= out

\* the layers of the trailing min(n, window length) that hold a rainfall
\* amount in the raster: neither NaN nor the declared nodata value
Valid(n) ==
    {k \in SliceFrom(n)..Len(a_raw) : a_raw[k] # NaN /\ a_raw[k] # a_nodata}
RECURSIVE SumRaw(_)
SumRaw(K) ==
    IF K = {} THEN 0
    ELSE LET k == CHOOSE x \in K : TRUE IN a_raw[k] + SumRaw(K \ {k})

\* C35: with a declared nodata value and no NaN in the rasters, a cell value
\* equal to nodata is missing in the stack; the sums add only the other
\* values and the maxima are taken over them, missing when the whole slice is
\* nodata (a slice of zeros gives 0).
C35_NoDataIsMissing ==
    (a_pc \in {"pdt", "rf"} /\ a_nodata = NoDataValue /\ ~HasNaN(a_raw)) =>
        /\ \A k \in DOMAIN a_raw : a_raw[k] = a_nodata => a_stack[k] = NaN
        /\ a_feats.R3d = SumRaw(Valid(3))
        /\ a_feats.R7d = SumRaw(Valid(7))
        /\ a_feats.R30d = SumRaw(Valid(30))
        /\ \A n \in {3, 30} :
              LET out == IF n = 3 THEN a_feats.Max_Rainfall_3day
                         ELSE a_feats.Max_Rainfall_30day
              IN  IF Valid(n) = {} THEN out = NaN
                  ELSE /\ \E k \in Valid(n) : out = a_raw[k]
                       /\ \A k \in Valid(n) : a_raw[k] <= out

\* every layer of the stack is a rainfall amount: not missing, not negative
AllPresent == \A k \in DOMAIN a_stack : a_stack[k] # NaN /\ a_stack[k] >= 0

\* C39: for a stack without missing or negative values, of any length, the
\* aggregates are ordered: R1d <= R3d <= R7d <= R30d, Max_3day <= Max_30day,
\* R1d <= Max_3day <= R3d and Max_30day <= R30d.
C39_AggregatesOrdered ==
    (a_pc \in {"pdt", "rf"} /\ AllPresent) =>
        /\ a_feats.R1d <= a_feats.R3d
        /\ a_feats.R3d <= a_feats.R7d
        /\ a_feats.R7d <= a_feats.R30d
        /\ a_feats.Max_Rainfall_3day <= a_feats.Max_Rainfall_30day
        /\ a_feats.R1d <= a_feats.Max_Rainfall_3day
        /\ a_feats.Max_Rainfall_3day <= a_feats.R3d
        /\ a_feats.Max_Rainfall_30day <= a_feats.R30d
C39_Witness ==
    /\ a_pc = "pdt" /\ AllPresent /\ Len(a_stack) = 30
    /\ a_feats.R1d < a_feats.Max_Rainfall_3day
    /\ a_feats.Max_Rainfall_3day < a_feats.R3d
    /\ a_feats.R3d < a_feats.R7d
    /\ a_feats.R7d < a_feats.R30d
    /\ a_feats.Max_Rainfall_3day < a_feats.Max_Rainfall_30day

(***************************************************************************)
(* SpecPipe: main and predict of predict_daily_triple.py, from the         *)
(* collected window to the written predictions                             *)
(***************************************************************************)
MaxLayers == 3      \* days in the window
NCells == 2         \* cells of the reference grid

\* A day of the window: no raster path (None), a raster that opens and
\* samples, one rasterio.open rejects, one that opens but fails in sampling.
DayKinds == {"none", "ok", "unopenable", "unsampleable"}
RECURSIVE DayPaths(_)
DayPaths(n) ==
    IF n = 0 THEN {<<>>}
    ELSE DayPaths(n - 1) \cup
         {Append(t, kd) : t \in {x \in DayPaths(n - 1) : Len(x) = n - 1}, kd \in DayKinds}

GridCells == 1..NCells
\* The county shapefile: absent, without the GEOID 37021 row, or with the
\* polygon, whose rasterization covers the cells `inside` of the grid.
ShapeFiles ==
    {[shp |-> "missing", inside |-> {}], [shp |-> "no_polygon", inside |-> {}]}
    \cup [shp : {"polygon"}, inside : SUBSET GridCells]

\* the predictions parquet and meta.json of the date: a run before this one
\* left both or none
OutputsBefore == {[parquet |-> o, manifest |-> o] : o \in {"none", "old"}}
\* rasterio dataset handles: the reference raster, the raster of day k
RefHandle == [h |-> "reference", k |-> 0]
DayHandle(k) == [h |-> "day", k |-> k]

\* ds.crs of a raster that opens: none, two that warp_transform handles, and
\* one it raises on (no transformation from the reference CRS)
DayCrs == {"None", "EPSG:4269", "EPSG:4326", "LOCAL_CS"}
\* a raster that samples has a CRS warp_transform handled
CrsOf(kd) ==
    IF kd = "ok" THEN DayCrs \ {"LOCAL_CS"}
    ELSE IF kd = "unsampleable" THEN DayCrs
    ELSE {"-"}
RAIN_FALLBACK_CRS == "EPSG:4269"
\* target_crs = ds.crs.to_string() if ds.crs else RAIN_FALLBACK_CRS
target_crs(crs) == IF crs = "None" THEN RAIN_FALLBACK_CRS ELSE crs
\* line 157-162: warp_transform is called when target_crs is not in
\* coord_cache; its result is stored when it returns
Reproject(warp, crs) ==
    IF target_crs(crs) \in warp.cache THEN warp
    ELSE [cache |-> IF crs = "LOCAL_CS" THEN warp.cache
                    ELSE warp.cache \cup {target_crs(crs)},
          calls |-> warp.calls + 1]

InitPipe ==
    /\ f_days \in DayPaths(MaxLayers) \ {<<>>}
    /\ f_shape \in ShapeFiles
    /\ f_pc = "main"
    /\ f_ref = 0 /\ f_mask = {} /\ f_k = 0
    /\ f_samples = <<>> /\ f_out = <<>> /\ f_err = "none"
    /\ \E o \in OutputsBefore :
          f_io = [open |-> {}, parquet |-> o.parquet, manifest |-> o.manifest]
    /\ f_crs \in {c \in [DOMAIN f_days -> DayCrs \cup {"-"}] :
                    \A k \in DOMAIN f_days : c[k] \in CrsOf(f_days[k])}
    /\ f_warp = [cache |-> {}, calls |-> 0]
    /\ MetaIdle /\ SyncIdle /\ PruneIdle /\ BatchIdle /\ DateIdle /\ AggIdle /\ ParIdle
    /\ TableIdle /\ HistIdle

\* main: available = paths that are not None, missing = the rest
PathsGiven(days) == Cardinality({k \in DOMAIN days : days[k] # "none"})
MainWindow(days) ==
    [tag |-> "window", available |-> PathsGiven(days),
     missing |-> Len(days) - PathsGiven(days)]

PipeOthers == <<mvars, svars, pvars, tvars, hvars, bvars, dvars, avars, wvars>>

\* main: the "Rainfall window" line, then predict()
PrintWindow ==
    /\ f_pc = "main"
    /\ f_out' = Append(f_out, MainWindow(f_days))
    /\ f_pc' = "ref"
    /\ UNCHANGED <<f_days, f_shape, f_ref, f_mask, f_k, f_samples, f_err, f_io, f_crs, f_warp, PipeOthers>>

\* _open_reference_raster: the latest day whose raster opens; the dataset is
\* returned open
Openable == {k \in DOMAIN f_days : f_days[k] \in {"ok", "unsampleable"}}
OpenReferenceFound ==
    /\ f_pc = "ref" /\ Openable # {}
    /\ f_ref' = CHOOSE k \in Openable : \A j \in Openable : j <= k
    /\ f_io' = [f_io EXCEPT !.open = @ \cup {RefHandle}]
    /\ f_pc' = "mask"
    /\ UNCHANGED <<f_days, f_shape, f_mask, f_k, f_samples, f_out, f_err, f_crs, f_warp, PipeOthers>>
OpenReferenceRaises ==
    /\ f_pc = "ref" /\ Openable = {}
    /\ f_err' = "FileNotFoundError" /\ f_pc' = "raised"
    /\ UNCHANGED <<f_days, f_shape, f_ref, f_mask, f_k, f_samples, f_out, f_io, f_crs, f_warp, PipeOthers>>

\* _build_mask: raises without the shapefile or the polygon
BuildMaskRaises ==
    /\ f_pc = "mask" /\ f_shape.shp # "polygon"
    /\ f_err' = IF f_shape.shp = "missing" THEN "FileNotFoundError" ELSE "ValueError"
    /\ f_pc' = "raised"
    /\ UNCHANGED <<f_days, f_shape, f_ref, f_mask, f_k, f_samples, f_out, f_io, f_crs, f_warp, PipeOthers>>
\* _build_mask returns features.rasterize(...).astype(bool); _grid_centers
\* and the "Sampling rainfall at n cells" line follow
BuildMaskReturns ==
    /\ f_pc = "mask" /\ f_shape.shp = "polygon"
    /\ f_mask' = f_shape.inside
    /\ f_out' = Append(f_out, [tag |-> "sampling", cells |-> Cardinality(f_shape.inside)])
    /\ f_k' = 1
    /\ f_pc' = "sample"
    /\ UNCHANGED <<f_days, f_shape, f_ref, f_samples, f_err, f_io, f_crs, f_warp, PipeOthers>>

\* _sample_rainfall, one day of the loop: path is None
SampleNone ==
    /\ f_pc = "sample" /\ f_k <= Len(f_days) /\ f_days[f_k] = "none"
    /\ f_samples' = Append(f_samples, "zeros")
    /\ f_k' = f_k + 1
    /\ UNCHANGED <<f_days, f_shape, f_pc, f_ref, f_mask, f_out, f_err, f_io, f_crs, f_warp, PipeOthers>>
\* with rasterio.open(path) as ds: the raster opens
SampleOpen ==
    /\ f_pc = "sample" /\ f_k <= Len(f_days)
    /\ f_days[f_k] \in {"ok", "unsampleable"}
    /\ f_io' = [f_io EXCEPT !.open = @ \cup {DayHandle(f_k)}]
    /\ f_pc' = "with"
    /\ UNCHANGED <<f_days, f_shape, f_ref, f_mask, f_k, f_samples, f_out, f_err, f_crs, f_warp, PipeOthers>>
\* the raster is read; the with block is left
SampleRead ==
    /\ f_pc = "with" /\ f_days[f_k] = "ok"
    /\ f_samples' = Append(f_samples, "read")
    /\ f_warp' = Reproject(f_warp, f_crs[f_k])
    /\ f_io' = [f_io EXCEPT !.open = @ \ {DayHandle(f_k)}]
    /\ f_k' = f_k + 1
    /\ f_pc' = "sample"
    /\ UNCHANGED <<f_days, f_shape, f_ref, f_mask, f_out, f_err, f_crs, PipeOthers>>
\* rasterio.open raises, or the body of the with block does (warp_transform
\* for a CRS it rejects, ds.sample otherwise) and the block is left; except
\* Exception: zeros are appended, nothing is printed or recorded
SampleExcept ==
    /\ \/ /\ f_pc = "sample" /\ f_k <= Len(f_days) /\ f_days[f_k] = "unopenable"
          /\ f_warp' = f_warp
       \/ /\ f_pc = "with" /\ f_days[f_k] = "unsampleable"
          /\ f_warp' = Reproject(f_warp, f_crs[f_k])
    /\ f_samples' = Append(f_samples, "zeros_after_error")
    /\ f_io' = [f_io EXCEPT !.open = @ \ {DayHandle(f_k)}]
    /\ f_k' = f_k + 1
    /\ f_pc' = "sample"
    /\ UNCHANGED <<f_days, f_shape, f_ref, f_mask, f_out, f_err, f_crs, PipeOthers>>

\* a model handed a frame of zero rows may reject it
PredictRaises ==
    /\ f_pc = "sample" /\ f_k > Len(f_days) /\ f_mask = {}
    /\ f_err' = "ValueError" /\ f_pc' = "raised"
    /\ UNCHANGED <<f_days, f_shape, f_ref, f_mask, f_k, f_samples, f_out, f_io, f_crs, f_warp, PipeOthers>>
\* predict, lines 316-351: static attributes, the frame, the models, then
\* results.to_parquet(out_path) onto the final path
ToParquet ==
    /\ f_pc = "sample" /\ f_k > Len(f_days)
    /\ f_io' = [f_io EXCEPT !.parquet = "new"]
    /\ f_pc' = "written"
    /\ UNCHANGED <<f_days, f_shape, f_ref, f_mask, f_k, f_samples, f_out, f_err, f_crs, f_warp, PipeOthers>>
\* to_parquet raises while it writes (OSError: disk full, permission): the
\* destination is left as far as it was written
ToParquetRaises ==
    /\ f_pc = "sample" /\ f_k > Len(f_days)
    /\ \E left \in {f_io.parquet, "partial"} : f_io' = [f_io EXCEPT !.parquet = left]
    /\ f_err' = "OSError" /\ f_pc' = "raised"
    /\ UNCHANGED <<f_days, f_shape, f_ref, f_mask, f_k, f_samples, f_out, f_crs, f_warp, PipeOthers>>
\* line 352-353: reference_ds.close(); return len(results)
CloseReference ==
    /\ f_pc = "written"
    /\ f_io' = [f_io EXCEPT !.open = @ \ {RefHandle}]
    /\ f_pc' = "returned"
    /\ UNCHANGED <<f_days, f_shape, f_ref, f_mask, f_k, f_samples, f_out, f_err, f_crs, f_warp, PipeOthers>>
\* main, lines 376-390: meta.json is written and the "ok" line printed
WritePredictions ==
    /\ f_pc = "returned"
    /\ f_io' = [f_io EXCEPT !.manifest = "new"]
    /\ f_out' = Append(f_out, [tag |-> "ok", rows |-> Cardinality(f_mask)])
    /\ f_pc' = "done"
    /\ UNCHANGED <<f_days, f_shape, f_ref, f_mask, f_k, f_samples, f_err, f_crs, f_warp, PipeOthers>>
\* meta_path.write_text raises (OSError)
WriteMetaRaises ==
    /\ f_pc = "returned"
    /\ \E left \in {f_io.manifest, "partial"} : f_io' = [f_io EXCEPT !.manifest = left]
    /\ f_err' = "OSError" /\ f_pc' = "raised"
    /\ UNCHANGED <<f_days, f_shape, f_ref, f_mask, f_k, f_samples, f_out, f_crs, f_warp, PipeOthers>>

\* the layer a day that reads gives the stack: zeros without a path
Layer(kd) == IF kd = "none" THEN "zeros" ELSE "read"
\* rainfall_features._load_stack, called with the window's newest day as
\* target: that day's raster is the reference (FileNotFoundError without a
\* path, the rasterio error when it does not open or read); then every day
\* in order, zeros without a path, src.read(1) otherwise, outside any try;
\* each raster is opened in a with block
LoadStack ==
    /\ f_pc = "main"
    /\ LET n == Len(f_days)
           bad == {k \in DOMAIN f_days : f_days[k] \in {"unopenable", "unsampleable"}}
           stop == IF bad = {} THEN n + 1 ELSE CHOOSE k \in bad : \A j \in bad : k <= j
       IN  IF f_days[n] # "ok"
           THEN /\ f_err' = IF f_days[n] = "none" THEN "FileNotFoundError"
                            ELSE "RasterioIOError"
                /\ f_pc' = "rf_raised"
                /\ UNCHANGED <<f_ref, f_k, f_samples>>
           ELSE /\ f_ref' = n
                /\ f_k' = stop
                /\ f_samples' = [k \in 1..(stop - 1) |-> Layer(f_days[k])]
                /\ f_err' = IF bad = {} THEN "none" ELSE "RasterioIOError"
                /\ f_pc' = IF bad = {} THEN "rf_loaded" ELSE "rf_raised"
    /\ UNCHANGED <<f_days, f_shape, f_mask, f_out, f_io, f_crs, f_warp, PipeOthers>>

NextPipe ==
    \/ PrintWindow \/ OpenReferenceFound \/ OpenReferenceRaises \/ LoadStack
    \/ BuildMaskRaises \/ BuildMaskReturns
    \/ SampleNone \/ SampleOpen \/ SampleRead \/ SampleExcept
    \/ PredictRaises \/ ToParquet \/ ToParquetRaises \/ CloseReference
    \/ WritePredictions \/ WriteMetaRaises
SpecPipe == InitPipe /\ [][NextPipe]_vars

\* layers of the window degraded to zeros by a caught read error
CaughtReadErrors == Cardinality({k \in DOMAIN f_samples : f_samples[k] = "zeros_after_error"})
\* what the run's output says about them: the zero-filled days beyond those
\* without a path, and any line reporting a read error
ReportedReadErrors ==
    Cardinality({k \in DOMAIN f_out : f_out[k].tag = "read_error"})
    + (f_out[1].missing - Cardinality({k \in DOMAIN f_days : f_days[k] = "none"}))

\* C12: every caught error is counted in what the caller can observe at the
\* end of the run; here, the read failures degraded to a zero layer.
C12_CaughtErrorsTallied ==
    f_pc = "done" => ReportedReadErrors = CaughtReadErrors

\* C18: a mask that is returned has at least one true cell; the stages after
\* build_reference_and_mask never run on an empty mask.
C18_MaskNeverEmpty ==
    f_pc \in {"sample", "done"} => f_mask # {}

\* C23: the predictions file and its manifest are written only by a run in
\* which every stage succeeded: after a run that failed the two files are as
\* they were before it, and a new manifest always has its new predictions
\* file beside it.
C23_OutputOnlyOnSuccess ==
    /\ f_pc = "raised" =>
          (f_io.parquet \in {"none", "old"} /\ f_io.manifest = f_io.parquet)
    /\ f_io.manifest = "new" => f_io.parquet = "new"

\* C24: when predict has returned or raised, no raster handle it opened is
\* still open, the reference raster included.
C24_HandlesReleased ==
    f_pc \in {"returned", "done", "raised"} => f_io.open = {}

\* C32: the reference is the newest day of the window whose raster opens, an
\* older one only when no newer one opens; the operation fails for want of a
\* reference, with the no-readable-raster error, exactly when no day opens.
C32_NewestReadableReference ==
    /\ f_ref # 0 => (f_ref \in Openable /\ \A j \in Openable : j <= f_ref)
    /\ (f_pc \notin {"main", "ref"} /\ f_ref = 0) <=>
          (f_pc \in {"raised", "rf_raised"} /\ Openable = {}
              /\ f_err = "FileNotFoundError")

\* C34: once the sampling of the window has begun it ends with one layer per
\* day, in window order: zeros for a day without a path and for a day whose
\* raster fails to open or read; no day makes it raise.
C34_NoDayAborts ==
    /\ (f_pc \in {"raised", "rf_raised"} /\ f_k >= 1) => f_k > Len(f_days)
    /\ f_k > Len(f_days) =>
          /\ Len(f_samples) = Len(f_days)
          /\ \A k \in DOMAIN f_days :
                IF f_days[k] = "ok" THEN f_samples[k] = "read"
                ELSE f_samples[k] \in {"zeros", "zeros_after_error"}
    /\ f_pc \in {"sample", "with"} => Len(f_samples) = f_k - 1

\* the days _sample_rainfall has opened so far
OpenedDays == {k \in Openable : k < f_k}
\* C36: warp_transform is called once per distinct coordinate system among
\* the days that were opened, and every day that was sampled was sampled at
\* the coordinates coord_cache holds for its coordinate system.
C36_OneReprojectionPerCrs ==
    f_pc \in {"sample", "written", "returned", "done"} =>
        /\ f_warp.calls = Cardinality({target_crs(f_crs[k]) : k \in OpenedDays})
        /\ \A k \in OpenedDays :
              f_samples[k] = "read" => target_crs(f_crs[k]) \in f_warp.cache

(***************************************************************************)
(* SpecTable: predict of predict_daily_triple.py from the mask to the      *)
(* results frame: _grid_centers, the sampling positions, the static index  *)
(* and _sample_static_attributes.  Coordinates are in hundredths of a map  *)
(* unit; attribute values are small integers, which float32 holds exactly. *)
(***************************************************************************)
NRows == 2          \* rows of the reference grid
NCols == 2          \* columns of the reference grid
MaxStatic == 2      \* rows of the static parquet

TableCells == (0..(NRows - 1)) \X (0..(NCols - 1))

\* reference_ds.transform * (cols + 0.5, rows + 0.5): a north-up grid of
\* cells one unit wide whose upper left corner is (0, 10)
CellCenter(r, c) == <<100 * c + 50, 1000 - (100 * r + 50)>>
\* ds.sample at (x, y): the value of the cell that contains the point
CellAt(x, y) == <<(1000 - y) \div 100, x \div 100>>

\* round(v, 1); no value drawn lies half way between two tenths
round1(v) == 10 * ((v + 5) \div 10)

\* rows of the static table: x, y, elevation, slope, soil depth.  52 rounds
\* onto the centre of column 0, 156 rounds onto no centre; 951 rounds onto
\* the centre of row 0.
StaticRows ==
    [x : {52, 156}, y : {951}, elev : {10}, slope : {3}, soil : {NaN, 150, 200}]
StaticFrames == UNION {[1..n -> StaticRows] : n \in 0..MaxStatic}

\* np.where(mask) from flat position n on: the true cells in C order
RECURSIVE np_where_ColumnMajor(_, _)
np_where_ColumnMajor(mask, n) ==
    IF n >= NRows * NCols THEN <<>>
    ELSE LET cell == <<n % NRows, n \div NRows>>
         IN  (IF cell \in mask THEN <<cell>> ELSE <<>>) \o np_where_ColumnMajor(mask, n + 1)
RECURSIVE np_where(_, _)
np_where(mask, n) ==
    IF n >= NRows * NCols THEN <<>>
    ELSE LET cell == <<n \div NCols, n % NCols>>
         IN  (IF cell \in mask THEN <<cell>> ELSE <<>>) \o np_where(mask, n + 1)

\* _build_static_index: the dict after rows k.. of the frame; a later row
\* with the same rounded key replaces the earlier one
RECURSIVE build_static_index(_, _, _)
build_static_index(static_df, k, index) ==
    IF k > Len(static_df) THEN index
    ELSE LET row == static_df[k]
             key == <<round1(row.x), round1(row.y)>>
             val == <<row.elev, row.slope, row.soil>>
         IN  build_static_index(static_df, k + 1,
                 [q \in DOMAIN index \cup {key} |-> IF q = key THEN val ELSE index[q]])

\* soil >= 200 on a float: False for NaN
GreaterEqual(a, b) == a # NaN /\ a >= b

\* _sample_static_attributes for one coordinate: index.get(key, default),
\* then the flag (soil >= 200).astype(np.int8)
sample_static_ZeroDefault(index, x, y) ==
    LET key == <<round1(x), round1(y)>>
        t   == IF key \in DOMAIN index THEN index[key] ELSE <<0, 0, 0>>
    IN  [elev |-> t[1], slope |-> t[2], soil |-> t[3],
         flag |-> IF GreaterEqual(t[3], 200) THEN 1 ELSE 0]
sample_static(index, x, y) ==
    LET key == <<round1(x), round1(y)>>
        t   == IF key \in DOMAIN index THEN index[key] ELSE <<NaN, NaN, NaN>>
    IN  [elev |-> t[1], slope |-> t[2], soil |-> t[3],
         flag |-> IF GreaterEqual(t[3], 200) THEN 1 ELSE 0]

\* the rainfall raster: a different value in every cell
RainGrid == [cell \in TableCells |-> 1 + NCols * cell[1] + cell[2]]

InitTable ==
    /\ t_mask \in SUBSET TableCells
    /\ t_static \in StaticFrames
    /\ t_rain = RainGrid
    /\ t_rows = <<>>
    /\ t_pc = "call"
    /\ MetaIdle /\ SyncIdle /\ PruneIdle /\ BatchIdle /\ DateIdle /\ AggIdle /\ PipeIdle
    /\ ParIdle /\ HistIdle

\* predict, lines 310-333: rows and cols of the true cells, their centres,
\* the rainfall sampled at the centres, the static attributes looked up at
\* the centres; the frame joins the arrays by position
BuildFrame ==
    /\ t_pc = "call"
    /\ LET cells == np_where(t_mask, 0)
           xy == [k \in DOMAIN cells |-> CellCenter(cells[k][1], cells[k][2])]
           rain == [k \in DOMAIN cells |-> t_rain[CellAt(xy[k][1], xy[k][2])]]
           index == build_static_index(t_static, 1, <<>>)
           static_attrs == [k \in DOMAIN cells |-> sample_static(index, xy[k][1], xy[k][2])]
       IN  t_rows' = [k \in DOMAIN cells |->
                        [row |-> cells[k][1], col |-> cells[k][2],
                         x |-> xy[k][1], y |-> xy[k][2], rain |-> rain[k],
                         elev |-> static_attrs[k].elev, slope |-> static_attrs[k].slope,
                         soil |-> static_attrs[k].soil, flag |-> static_attrs[k].flag]]
    /\ t_pc' = "done"
    /\ UNCHANGED <<t_mask, t_static, t_rain, mvars, svars, pvars, hvars, bvars, dvars,
                   avars, fvars, wvars>>

NextTable == BuildFrame
SpecTable == InitTable /\ [][NextTable]_vars

\* the static rows whose rounded coordinates are those of the rounded (x, y)
Matches(x, y) ==
    {k \in DOMAIN t_static : /\ round1(t_static[k].x) = round1(x)
                             /\ round1(t_static[k].y) = round1(y)}
LastOf(S) == CHOOSE k \in S : \A j \in S : j <= k

\* C21: a coordinate whose rounded key is indexed gets the indexed elevation,
\* slope and soil depth (those of the last static row with that key), an
\* unmatched one gets all three missing, never a made-up number; the flag is
\* 1 exactly when the soil depth is known and at least 200, and 0 (false)
\* when it is below 200 or missing.
C21_StaticLookup ==
    t_pc = "done" =>
        \A k \in DOMAIN t_rows :
            LET r == t_rows[k]
                M == Matches(r.x, r.y)
            IN  /\ M # {} => /\ r.elev = t_static[LastOf(M)].elev
                             /\ r.slope = t_static[LastOf(M)].slope
                             /\ r.soil = t_static[LastOf(M)].soil
                /\ M = {} => (r.elev = NaN /\ r.slope = NaN /\ r.soil = NaN)
                /\ r.flag = 1 <=> (r.soil # NaN /\ r.soil >= 200)
                /\ r.flag = 0 <=> (r.soil = NaN \/ r.soil < 200)

\* a frame with an unmatched cell, and a matched cell whose key two static
\* rows share, the later one deep
C21_Witness ==
    /\ t_pc = "done"
    /\ \E k \in DOMAIN t_rows : Matches(t_rows[k].x, t_rows[k].y) = {} /\ t_rows[k].flag = 0
    /\ \E k \in DOMAIN t_rows :
          /\ Cardinality(Matches(t_rows[k].x, t_rows[k].y)) = 2
          /\ t_rows[k].soil = 200 /\ t_rows[k].flag = 1
          /\ t_static[1].soil = NaN

\* C22: the frame has one row per true cell of the mask and none for another
\* cell, ordered by row and then by column, and the coordinates, the rainfall
\* and the static attributes of a row are those of its own (row, col).
C22_OneRowPerMaskCell ==
    t_pc = "done" =>
        /\ Len(t_rows) = Cardinality(t_mask)
        /\ \A k \in DOMAIN t_rows :
              LET r == t_rows[k]
                  M == Matches(100 * r.col + 50, 950 - 100 * r.row)
              IN  /\ <<r.row, r.col>> \in t_mask
                  /\ r.x = 100 * r.col + 50 /\ r.y = 950 - 100 * r.row
                  /\ r.rain = t_rain[<<r.row, r.col>>]
                  /\ r.soil = IF M = {} THEN NaN ELSE t_static[LastOf(M)].soil
        /\ \A k, j \in DOMAIN t_rows :
              k < j => \/ t_rows[k].row < t_rows[j].row
                       \/ (t_rows[k].row = t_rows[j].row /\ t_rows[k].col < t_rows[j].col)

\* a full mask: the second row of the frame is the second cell of grid row 0
C22_Witness ==
    /\ t_pc = "done" /\ t_mask = TableCells
    /\ Len(t_rows) = NRows * NCols
    /\ t_rows[2].row = 0 /\ t_rows[2].col = 1 /\ t_rows[NCols + 1].row = 1

(***************************************************************************)
(* SpecHist: main of static_historic_prediction.py, the batch driver of    *)
(* the feature engine, run against predict_daily_triple.py as imported     *)
(* (import predict_daily_triple as pdt).                                   *)
(***************************************************************************)
MaxHistDays == 3    \* dates requested with --start/--end or --dates

\* the module attributes of predict_daily_triple.py the driver refers to,
\* those the module defines
PdtDefines ==
    {"ROOT", "PRED_DIR", "DATE_FMT", "RAIN_WINDOW_DAYS", "_collect_day_paths",
     "resolve_model_features", "predict"}
\* pdt.<name>: AttributeError unless the module defines the name
GetAttr(name) == IF name \in PdtDefines THEN "value" ELSE "AttributeError"
\* _out_paths(date_str), lines 29-36: its first statement is pdt._ym_dir(date_str)
out_paths == GetAttr("_ym_dir")
\* _exists_all(date_str), lines 38-40: _out_paths, then three exists()
exists_all == IF out_paths = "AttributeError" THEN "AttributeError" ELSE "bool"
\* what pdt.predict returns (line 353, len(results)), and
\* count, results, src_crs = <that value>
PredictReturns == "int"
Unpack3(v) == IF v = "int" THEN "TypeError" ELSE "bound"

\* the requested days: distinct dates in the order given
HistDays == {q \in UNION {[1..n -> 1..MaxHistDays] : n \in 0..MaxHistDays} :
                \A a, b \in DOMAIN q : a # b => q[a] # q[b]}

InitHist ==
    /\ h_cfg \in [days : HistDays, skip_existing : BOOLEAN,
                  store : BOOLEAN,      \* RAIN_DIR holds a dated raster
                  models : BOOLEAN]     \* the model files load
    /\ h_k = 0
    /\ h_pc = "setup"
    /\ h_lists = [ok |-> <<>>, skipped |-> <<>>, failed |-> <<>>]
    /\ h_out = <<>>
    /\ MetaIdle /\ SyncIdle /\ PruneIdle /\ BatchIdle /\ DateIdle /\ AggIdle /\ PipeIdle
    /\ ParIdle /\ TableIdle

HistOthers == <<mvars, svars, pvars, tvars, bvars, dvars, avars, fvars, wvars>>

\* lines 254-265 raise, outside any try: _find_missing_dates_for_windows calls
\* _collect_day_paths, which raises over a store without a dated raster;
\* resolve_model_features raises when a model does not load
HistSetupRaises ==
    /\ h_pc = "setup"
    /\ \/ h_cfg.days # <<>> /\ ~h_cfg.store
       \/ ~h_cfg.models
    /\ h_pc' = "crashed"
    /\ UNCHANGED <<h_cfg, h_k, h_lists, h_out, HistOthers>>
HistSetup ==
    /\ h_pc = "setup"
    /\ h_cfg.days = <<>> \/ h_cfg.store
    /\ h_cfg.models
    /\ h_k' = 1
    /\ h_pc' = "loop"
    /\ UNCHANGED <<h_cfg, h_lists, h_out, HistOthers>>

\* line 255, if args.skip_existing and _exists_all(ds): the call raises
\* before the try of line 260
HistSkipCheckRaises ==
    /\ h_pc = "loop" /\ h_k <= Len(h_cfg.days)
    /\ h_cfg.skip_existing /\ exists_all = "AttributeError"
    /\ h_pc' = "crashed"
    /\ UNCHANGED <<h_cfg, h_k, h_lists, h_out, HistOthers>>
\* lines 260-278: the try block raises, in pdt.predict or when its value is
\* unpacked; except Exception: the FAIL line, failed.append
HistDateFails ==
    /\ h_pc = "loop" /\ h_k <= Len(h_cfg.days)
    /\ ~h_cfg.skip_existing
    /\ \E e \in {"predict", Unpack3(PredictReturns)} :
          /\ e # "bound"
          /\ h_lists' = [h_lists EXCEPT !.failed = Append(@, [ds |-> h_cfg.days[h_k], err |-> e])]
    /\ h_out' = Append(h_out, [tag |-> "FAIL", ds |-> h_cfg.days[h_k]])
    /\ h_k' = h_k + 1
    /\ UNCHANGED <<h_cfg, h_pc, HistOthers>>
\* lines 280-287: the summary
HistSummary ==
    /\ h_pc = "loop" /\ h_k > Len(h_cfg.days)
    /\ h_out' = Append(h_out, [tag |-> "Summary", total |-> Len(h_cfg.days),
                               ok |-> Len(h_lists.ok), skipped |-> Len(h_lists.skipped),
                               failed |-> Len(h_lists.failed)])
    /\ h_pc' = "done"
    /\ UNCHANGED <<h_cfg, h_k, h_lists, HistOthers>>

NextHist ==
    \/ HistSetupRaises \/ HistSetup \/ HistSkipCheckRaises \/ HistDateFails \/ HistSummary
SpecHist == InitHist /\ [][NextHist]_vars

\* the lists a date is in
ListsOf(ds) ==
    {l \in {"ok", "skipped"} : \E k \in DOMAIN h_lists[l] : h_lists[l][k] = ds}
    \cup {l \in {"failed"} : \E k \in DOMAIN h_lists.failed : h_lists.failed[k].ds = ds}

\* C27: once the loop over the dates has started the driver does not stop
\* before the summary; at the summary every requested date is in exactly one
\* of ok, skipped and failed, and the three counts printed add up to the total.
C27_EveryDateSettled ==
    /\ h_pc = "crashed" => h_k = 0
    /\ h_pc = "done" =>
          /\ \A k \in DOMAIN h_cfg.days : Cardinality(ListsOf(h_cfg.days[k])) = 1
          /\ LET line == h_out[Len(h_out)]
             IN  line.ok + line.skipped + line.failed = line.total

(***************************************************************************)
(* SpecPar: two workers, each running sync_day(cfg, d) for its date, on    *)
(* one rainfall_dir.  Every file-system call of sync_day is one step.  The *)
(* run "seq" executes the two calls one after the other in the order       *)
(* w_order; the run "par" then executes them from the same files with the  *)
(* steps interleaved in every way.  The remote answers a worker the same   *)
(* in both runs (w_script).                                                *)
(***************************************************************************)
Workers == {1, 2}
ParDates == {1, 2}
Runs == {"seq", "par"}
Other(w) == CHOOSE v \in Workers : v # w

\* the paths of a date (lines 48-50, 97)
zip_path(d) == <<"zip", d>>
meta_path(d) == <<"meta", d>>
folder_path(d) == <<"folder", d>>
tmp_path_FirstDate(d) == <<"tmp", 1>>
tmp_path(d) == <<"tmp", d>>
ParPaths == {zip_path(d) : d \in ParDates} \cup {meta_path(d) : d \in ParDates}
            \cup {folder_path(d) : d \in ParDates} \cup {tmp_path(d) : d \in ParDates}

\* A regular file is a path bound to an inode; 0 = the path does not exist.
\* Inodes: the archive a date had before the run, and the file a worker
\* creates in its first or second download_zip.
NoIno == 0
OldIno(d) == d
NewIno(w, st) == 10 * w + st
InoIds == {OldIno(d) : d \in ParDates} \cup {NewIno(w, st) : w \in Workers, st \in {1, 2}}

\* the content of an archive file: chunks, each of a body; a hole is what a
\* write beyond the end of a truncated file leaves before it
Chunk(b, k) == [b |-> b, k |-> k]
Hole == Chunk("hole", 0)
Whole(b) == [k \in 1..NChunks |-> Chunk(b, k)]
\* f.write(chunk) at the position of the handle
WriteAt(content, k, c) ==
    IF k <= Len(content) THEN [content EXCEPT ![k] = c]
    ELSE content \o [j \in 1..(k - 1 - Len(content)) |-> Hole] \o <<c>>

\* the fingerprint HEAD reports, and the sidecar save_meta writes from it
\* (synced_utc: which call wrote it)
ParFp(v) == [etag |-> v, last_modified_utc |-> 1, content_length |-> 1]
ParMeta(by, v) ==
    JsonFile([k \in MetaKeys |-> IF k = "synced_utc" THEN by ELSE Get(ParFp(v), k)])

\* What the remote answers a worker: HEAD 404, HEAD failing, the fingerprint
\* the sidecars of the cache hold (1) or a new one (2); GET failing in
\* retry_get or raise_for_status, the stream breaking after the first chunk,
\* or the whole body.
Scripts ==
    {[head |-> "404", get |-> "fail", body |-> "bad"],
     [head |-> "error", get |-> "fail", body |-> "bad"],
     [head |-> "same", get |-> "fail", body |-> "bad"],
     [head |-> "same", get |-> "ok", body |-> "tif"]}
    \cup [head : {"changed"}, get : {"fail", "cut"}, body : {"bad"}]
    \cup [head : {"changed"}, get : {"ok"}, body : Bodies]
ScriptRemote(sc) == FoundRemote(ParFp(IF sc.head = "same" THEN 1 ELSE 2))

\* extract, verify_tif, delete_zip_after_extract; the last two are read
\* only when extract is set
ParCfgs ==
    {c \in [extract : BOOLEAN, verify_tif : BOOLEAN, delete_zip_after_extract : BOOLEAN] :
        c.extract \/ (c.verify_tif /\ c.delete_zip_after_extract)}

\* the files of one date before the run: nothing, the extracted folder with
\* its sidecar, or the archive with its sidecar
DateStates == {"empty", "extracted", "archived"}
InitialFile(p, st) ==
    CASE p[1] = "zip" -> IF st = "archived" THEN OldIno(p[2]) ELSE NoIno
      [] p[1] = "tmp" -> NoIno
      [] p[1] = "meta" -> IF st = "empty" THEN NoFile ELSE ParMeta(0, 1)
      [] p[1] = "folder" -> IF st = "extracted" THEN [ex |-> TRUE, tif |-> TRUE] ELSE NoFolder
InitialInode(n, sts) ==
    IF \E d \in ParDates : n = OldIno(d) /\ sts[d] = "archived" THEN Whole("tif") ELSE <<>>

\* position and locals of sync_day: pc, update_needed, which download_zip
\* call, chunks written, the inode of the open handle
AtHead == [pc |-> "head", upd |-> FALSE, site |-> 0, pos |-> 0, h |-> NoIno]
Ended(how) == [pc |-> how, upd |-> FALSE, site |-> 0, pos |-> 0, h |-> NoIno]

\* The first worker has the first date, the second the same or the other.
\* With one date the second date has no files and the sequential order is
\* the one of the worker numbers.
InitPar ==
    /\ w_cfg \in ParCfgs
    /\ w_date \in {dd \in [Workers -> ParDates] : dd[1] = 1}
    /\ w_script \in [Workers -> Scripts]
    /\ w_order \in {<<1, 2>>, <<2, 1>>}
    /\ \E sts \in [ParDates -> DateStates] :
          /\ w_date[2] = 1 => (sts[2] = "empty" /\ w_order = <<1, 2>>)
          /\ w_fs = [r \in Runs |-> [p \in ParPaths |-> InitialFile(p, sts[p[2]])]]
          /\ w_ino = [r \in Runs |-> [n \in InoIds |-> InitialInode(n, sts)]]
    /\ w_loc = [r \in Runs |-> [w \in Workers |-> AtHead]]
    /\ w_overlap = FALSE
    /\ MetaIdle /\ SyncIdle /\ PruneIdle /\ BatchIdle /\ DateIdle /\ AggIdle /\ PipeIdle
    /\ TableIdle /\ HistIdle

\* shorthands for the run r and the worker w
Loc(r, w) == w_loc[r][w]
File(r, p) == w_fs[r][p]
Exists(r, p) ==
    CASE p[1] \in {"zip", "tmp"} -> File(r, p) # NoIno
      [] p[1] = "meta" -> File(r, p).st # "absent"
      [] p[1] = "folder" -> File(r, p).ex
\* tif_path(cfg, d).exists()
TifAt(r, d) == File(r, folder_path(d)).ex /\ File(r, folder_path(d)).tif
Inside(r, w) == Loc(r, w).pc \notin (Terminal \cup {"head"})

\* the call that may step: in "seq" the first of w_order until it ends, then
\* the second; in "par" either, once the sequential run is over
Sched(r, w) ==
    /\ Loc(r, w).pc \notin Terminal
    /\ r = "seq" => (w = w_order[1] \/ Loc("seq", w_order[1]).pc \in Terminal)
    /\ r = "par" => \A v \in Workers : Loc("seq", v).pc \in Terminal

\* the parts of a step: new locals, a new file, a new inode content
SetLoc(r, w, l) ==
    /\ w_loc' = [w_loc EXCEPT ![r][w] = l]
    /\ w_overlap' = (w_overlap \/ (r = "par" /\ Inside("par", Other(w))))
Goto(r, w, to) == SetLoc(r, w, [Loc(r, w) EXCEPT !.pc = to])
Raise(r, w) == SetLoc(r, w, Ended("raised"))
SetFile(r, p, v) == w_fs' = [w_fs EXCEPT ![r][p] = v]
Fixed == UNCHANGED <<w_cfg, w_date, w_script, w_order, mvars, svars, pvars, tvars, hvars,
                     bvars, dvars, avars, fvars>>

\* remote = head_remote(cfg, d): 404 -> None, sync_day returns (114-117)
WHead404(r, w) ==
    /\ Sched(r, w) /\ Loc(r, w).pc = "head" /\ w_script[w].head = "404"
    /\ SetLoc(r, w, Ended("skipped"))
    /\ UNCHANGED <<w_fs, w_ino>> /\ Fixed
\* head_remote raises
WHeadError(r, w) ==
    /\ Sched(r, w) /\ Loc(r, w).pc = "head" /\ w_script[w].head = "error"
    /\ Raise(r, w)
    /\ UNCHANGED <<w_fs, w_ino>> /\ Fixed
WHeadOk(r, w) ==
    /\ Sched(r, w) /\ Loc(r, w).pc = "head" /\ w_script[w].head \in {"same", "changed"}
    /\ Goto(r, w, "load")
    /\ UNCHANGED <<w_fs, w_ino>> /\ Fixed

\* line 139: if cfg["extract"], else sync_day returns
AfterUpdate == IF w_cfg.extract THEN "tif_exists" ELSE "done"
\* a step that ends the call or goes on
GoOrEnd(r, w, to) == IF to = "done" THEN SetLoc(r, w, Ended("done")) ELSE Goto(r, w, to)

\* local_meta = load_meta(m); update_needed = needs_update_by_meta(...) (119-122)
WLoadMeta(r, w) ==
    /\ Sched(r, w) /\ Loc(r, w).pc = "load"
    /\ LET upd == needs_update_by_meta(load_meta(File(r, meta_path(w_date[w]))),
                                       ScriptRemote(w_script[w]),
                                       <<"etag", "last_modified_utc", "content_length">>)
       IN  IF upd THEN SetLoc(r, w, [Loc(r, w) EXCEPT !.pc = "z_exists", !.upd = TRUE])
           ELSE GoOrEnd(r, w, AfterUpdate)
    /\ UNCHANGED <<w_fs, w_ino>> /\ Fixed

\* p.exists(): on to `yes` or to `no`
ExistsStep(r, w, p, yes, no) ==
    /\ Sched(r, w)
    /\ GoOrEnd(r, w, IF Exists(r, p) THEN yes ELSE no)
    /\ UNCHANGED <<w_fs, w_ino>> /\ Fixed
\* p.unlink() / shutil.rmtree(p): FileNotFoundError when the path is gone
\* by now
RemoveStep(r, w, p, gone, to) ==
    /\ Sched(r, w)
    /\ IF Exists(r, p)
       THEN SetFile(r, p, gone) /\ GoOrEnd(r, w, to)
       ELSE Raise(r, w) /\ UNCHANGED w_fs
    /\ UNCHANGED w_ino /\ Fixed

\* if z.exists(): z.unlink() (123)
WZipExists(r, w) ==
    /\ Loc(r, w).pc = "z_exists"
    /\ ExistsStep(r, w, zip_path(w_date[w]), "z_unlink", "m_exists")
WZipUnlink(r, w) ==
    /\ Loc(r, w).pc = "z_unlink"
    /\ RemoveStep(r, w, zip_path(w_date[w]), NoIno, "m_exists")
\* if m.exists(): m.unlink() (124)
WMetaExists(r, w) ==
    /\ Loc(r, w).pc = "m_exists"
    /\ ExistsStep(r, w, meta_path(w_date[w]), "m_unlink", "f_exists")
WMetaUnlink(r, w) ==
    /\ Loc(r, w).pc = "m_unlink"
    /\ RemoveStep(r, w, meta_path(w_date[w]), NoFile, "f_exists")
\* if folder_path(cfg, d).exists(): shutil.rmtree(...) (125-127); then
\* z = download_zip(cfg, d) (128)
WFolderExists(r, w) ==
    /\ Sched(r, w) /\ Loc(r, w).pc = "f_exists"
    /\ SetLoc(r, w, [Loc(r, w) EXCEPT
                        !.pc = IF Exists(r, folder_path(w_date[w])) THEN "rmtree" ELSE "get",
                        !.site = 1])
    /\ UNCHANGED <<w_fs, w_ino>> /\ Fixed
WRmtree(r, w) ==
    /\ Loc(r, w).pc = "rmtree"
    /\ RemoveStep(r, w, folder_path(w_date[w]), NoFolder, "get")

\* download_zip: retry_get raises after its attempts, or raise_for_status
\* raises (95-96)
WGetFails(r, w) ==
    /\ Sched(r, w) /\ Loc(r, w).pc = "get" /\ w_script[w].get = "fail"
    /\ Raise(r, w)
    /\ UNCHANGED <<w_fs, w_ino>> /\ Fixed
WGetOk(r, w) ==
    /\ Sched(r, w) /\ Loc(r, w).pc = "get" /\ w_script[w].get # "fail"
    /\ Goto(r, w, "open")
    /\ UNCHANGED <<w_fs, w_ino>> /\ Fixed

\* tmp.open("wb"): creates the file, or truncates the one at the path (98)
WOpenTmp(r, w) ==
    /\ Sched(r, w) /\ Loc(r, w).pc = "open"
    /\ LET tp == tmp_path(w_date[w])
           n == IF File(r, tp) # NoIno THEN File(r, tp) ELSE NewIno(w, Loc(r, w).site)
       IN  /\ SetFile(r, tp, n)
           /\ w_ino' = [w_ino EXCEPT ![r][n] = <<>>]
           /\ SetLoc(r, w, [Loc(r, w) EXCEPT !.pc = "write", !.pos = 0, !.h = n])
    /\ Fixed
\* f.write(chunk), through the handle (99-100)
WWrite(r, w) ==
    /\ Sched(r, w) /\ Loc(r, w).pc = "write"
    /\ ~(w_script[w].get = "cut" /\ Loc(r, w).pos >= 1)
    /\ LET l == Loc(r, w)
       IN  /\ w_ino' = [w_ino EXCEPT ![r][l.h] =
                            WriteAt(@, l.pos + 1, Chunk(w_script[w].body, l.pos + 1))]
           /\ SetLoc(r, w, [l EXCEPT !.pos = l.pos + 1,
                                     !.pc = IF l.pos + 1 = NChunks THEN "rename" ELSE "write"])
    /\ UNCHANGED w_fs /\ Fixed
\* iter_content raises: the with block closes the file, sync_day raises
WStreamRaises(r, w) ==
    /\ Sched(r, w) /\ Loc(r, w).pc = "write"
    /\ w_script[w].get = "cut" /\ Loc(r, w).pos >= 1
    /\ Raise(r, w)
    /\ UNCHANGED <<w_fs, w_ino>> /\ Fixed
\* tmp.replace(zpath): FileNotFoundError when the temporary path is gone (101)
WReplace(r, w) ==
    /\ Sched(r, w) /\ Loc(r, w).pc = "rename"
    /\ LET tp == tmp_path(w_date[w])
       IN  IF File(r, tp) # NoIno
           THEN /\ w_fs' = [w_fs EXCEPT ![r][zip_path(w_date[w])] = File(r, tp),
                                        ![r][tp] = NoIno]
                /\ SetLoc(r, w, [Loc(r, w) EXCEPT !.pc = "save", !.pos = 0, !.h = NoIno])
           ELSE Raise(r, w) /\ UNCHANGED w_fs
    /\ UNCHANGED w_ino /\ Fixed
\* save_meta(m, {...}) (129-135, 144-149)
WSaveMeta(r, w) ==
    /\ Sched(r, w) /\ Loc(r, w).pc = "save"
    /\ SetFile(r, meta_path(w_date[w]),
               ParMeta(w, IF w_script[w].head = "same" THEN 1 ELSE 2))
    /\ GoOrEnd(r, w, IF Loc(r, w).site = 1 THEN AfterUpdate ELSE "expand")
    /\ UNCHANGED w_ino /\ Fixed

\* if not tif_path(cfg, d).exists() (140); else the test of line 157 begins
WTifExists(r, w) ==
    /\ Sched(r, w) /\ Loc(r, w).pc = "tif_exists"
    /\ GoOrEnd(r, w, IF ~TifAt(r, w_date[w]) THEN "z_exists2"
                     ELSE IF w_cfg.delete_zip_after_extract THEN "z_exists4" ELSE "done")
    /\ UNCHANGED <<w_fs, w_ino>> /\ Fixed
\* if not z.exists(): z = download_zip(cfg, d) (142-143)
WZipExists2(r, w) ==
    /\ Sched(r, w) /\ Loc(r, w).pc = "z_exists2"
    /\ SetLoc(r, w, IF Exists(r, zip_path(w_date[w]))
                    THEN [Loc(r, w) EXCEPT !.pc = "expand"]
                    ELSE [Loc(r, w) EXCEPT !.pc = "get", !.site = 2])
    /\ UNCHANGED <<w_fs, w_ino>> /\ Fixed
\* expand_zip: zipfile.ZipFile(zpath).extractall(folder); it raises when the
\* archive is gone or is not one whole zip (150)
WExpand(r, w) ==
    /\ Sched(r, w) /\ Loc(r, w).pc = "expand"
    /\ LET n == File(r, zip_path(w_date[w]))
           fp == folder_path(w_date[w])
       IN  IF n # NoIno /\ w_ino[r][n] \in {Whole("tif"), Whole("other")}
           THEN /\ SetFile(r, fp, [ex |-> TRUE,
                                   tif |-> TifAt(r, w_date[w]) \/ w_ino[r][n] = Whole("tif")])
                /\ Goto(r, w, "verify")
           ELSE Raise(r, w) /\ UNCHANGED w_fs
    /\ UNCHANGED w_ino /\ Fixed
\* if verify_tif and not tif_path.exists(): ...; elif delete_zip_after_extract
\* and z.exists(): z.unlink() (151-155)
WVerify(r, w) ==
    /\ Sched(r, w) /\ Loc(r, w).pc = "verify"
    /\ GoOrEnd(r, w, IF w_cfg.verify_tif /\ ~TifAt(r, w_date[w]) THEN "done"
                     ELSE IF w_cfg.delete_zip_after_extract THEN "z_exists3" ELSE "done")
    /\ UNCHANGED <<w_fs, w_ino>> /\ Fixed
WZipExists3(r, w) ==
    /\ Loc(r, w).pc = "z_exists3"
    /\ ExistsStep(r, w, zip_path(w_date[w]), "z_unlink3", "done")
WZipUnlink3(r, w) ==
    /\ Loc(r, w).pc = "z_unlink3"
    /\ RemoveStep(r, w, zip_path(w_date[w]), NoIno, "done")
\* if delete_zip_after_extract and z.exists() and not update_needed:
\* z.unlink() (157-159)
WZipExists4(r, w) ==
    /\ Sched(r, w) /\ Loc(r, w).pc = "z_exists4"
    /\ GoOrEnd(r, w, IF Exists(r, zip_path(w_date[w])) /\ ~Loc(r, w).upd
                     THEN "z_unlink4" ELSE "done")
    /\ UNCHANGED <<w_fs, w_ino>> /\ Fixed
WZipUnlink4(r, w) ==
    /\ Loc(r, w).pc = "z_unlink4"
    /\ RemoveStep(r, w, zip_path(w_date[w]), NoIno, "done")

NextPar ==
    \E r \in Runs, w \in Workers :
        \/ WHead404(r, w) \/ WHeadError(r, w) \/ WHeadOk(r, w) \/ WLoadMeta(r, w)
        \/ WZipExists(r, w) \/ WZipUnlink(r, w) \/ WMetaExists(r, w) \/ WMetaUnlink(r, w)
        \/ WFolderExists(r, w) \/ WRmtree(r, w)
        \/ WGetFails(r, w) \/ WGetOk(r, w) \/ WOpenTmp(r, w) \/ WWrite(r, w)
        \/ WStreamRaises(r, w) \/ WReplace(r, w) \/ WSaveMeta(r, w)
        \/ WTifExists(r, w) \/ WZipExists2(r, w) \/ WExpand(r, w) \/ WVerify(r, w)
        \/ WZipExists3(r, w) \/ WZipUnlink3(r, w) \/ WZipExists4(r, w) \/ WZipUnlink4(r, w)
SpecPar == InitPar /\ [][NextPar]_vars

\* the cache of a run as a caller sees it: per path, absent or the content
CacheState(r) ==
    [p \in ParPaths |->
        IF p[1] \in {"zip", "tmp"}
        THEN IF File(r, p) = NoIno THEN <<"absent">> ELSE <<"file", w_ino[r][File(r, p)]>>
        ELSE <<"entry", File(r, p)>>]
Over(r) == \A w \in Workers : Loc(r, w).pc \in Terminal

\* C13 as stated: with both workers on one date, whatever the interleaving,
\* the archive under the final name is one whole download, never truncated
\* or mixed.
C13_SameDateAtomic ==
    w_loc # <<>> /\ w_date[1] = w_date[2] =>
        LET n == File("par", zip_path(w_date[1]))
        IN  n # NoIno => \E b \in Bodies : w_ino["par"][n] = Whole(b)

\* C14: two calls for different dates, interleaved in any way, end in the
\* cache state and with the outcomes of the two calls run one after the
\* other, in either order.
C14_DifferentDatesCommute ==
    w_loc # <<>> /\ w_date[1] # w_date[2] /\ Over("par") =>
        /\ CacheState("par") = CacheState("seq")
        /\ \A w \in Workers : Loc("par", w).pc = Loc("seq", w).pc

\* both calls downloaded and extracted, their steps overlapping
C14_Witness ==
    /\ w_loc # <<>> /\ w_date[1] # w_date[2] /\ Over("par") /\ w_overlap
    /\ \A w \in Workers : Loc("par", w).pc = "done" /\ w_script[w].head = "changed"
    /\ \A d \in ParDates : TifAt("par", d)

\* the elements of a list
Elems(s) == {s[k] : k \in DOMAIN s}
\* d with key k set to v
Put(d, k, v) == [x \in DOMAIN d \cup {k} |-> IF x = k THEN v ELSE d[x]]

BothExist == nu_pc = "done" /\ Truthy(load_meta(nu_sidecar)) /\ RemoteTruthy(nu_remote)
AllFieldsMatch ==
    \A f \in Elems(nu_fields) : Get(load_meta(nu_sidecar), f) = Get(nu_remote.d, f)

\* C1: with a local and a remote fingerprint, needs_update is false iff all
\* configured fields are equal; from a matching pair, changing one configured
\* field on either side gives true; a field that is not configured never
\* changes the result.
C1_ExactMatch ==
    BothExist =>
        /\ (nu_result = FALSE) <=> AllFieldsMatch
        /\ AllFieldsMatch =>
              \A f \in Elems(nu_fields) : \A v \in Vals \cup {None} :
                 /\ v # Get(load_meta(nu_sidecar), f) =>
                       needs_update_by_meta(Put(load_meta(nu_sidecar), f, v),
                                            nu_remote, nu_fields)
                 /\ v # Get(nu_remote.d, f) =>
                       needs_update_by_meta(load_meta(nu_sidecar),
                                            FoundRemote(Put(nu_remote.d, f, v)),
                                            nu_fields)
        /\ \A k \in MetaKeys \ Elems(nu_fields) : \A v \in Vals \cup {None} :
              /\ needs_update_by_meta(Put(load_meta(nu_sidecar), k, v),
                                      nu_remote, nu_fields) = nu_result
              /\ needs_update_by_meta(load_meta(nu_sidecar),
                                      FoundRemote(Put(nu_remote.d, k, v)),
                                      nu_fields) = nu_result

\* a matching pair over two configured fields, one of them absent on both sides
C1_Witness ==
    /\ BothExist /\ Len(nu_fields) = 2 /\ nu_fields[1] # nu_fields[2]
    /\ AllFieldsMatch /\ nu_result = FALSE
    /\ \E f \in Elems(nu_fields) : f \notin DOMAIN load_meta(nu_sidecar)

NoLocal == ~Truthy(load_meta(nu_sidecar))

\* C2 as stated: no local fingerprint gives true whatever the remote is; a
\* local fingerprint with a not-found remote gives false.
C2_LocalAbsentAlwaysTrue ==
    nu_pc = "done" =>
        /\ NoLocal => nu_result = TRUE
        /\ (~NoLocal /\ ~RemoteTruthy(nu_remote)) => nu_result = FALSE

\* C2 amended: a not-found remote gives false whatever the local side is; with
\* a remote fingerprint, no local fingerprint (absent, unparsable or empty
\* sidecar) gives true; the fields are compared only when both exist.
C2_RemoteFirst ==
    nu_pc = "done" =>
        /\ ~RemoteTruthy(nu_remote) => nu_result = FALSE
        /\ (RemoteTruthy(nu_remote) /\ NoLocal) => nu_result = TRUE
        /\ (~RemoteTruthy(nu_remote) \/ NoLocal) =>
              \A fs \in SeqsUpTo(MetaKeys, MaxFields) :
                 needs_update_by_meta(load_meta(nu_sidecar), nu_remote, fs) = nu_result

\* an unparsable sidecar against a not-found remote
C2_Witness ==
    nu_pc = "done" /\ nu_sidecar = CorruptFile /\ nu_remote = NoRemote
    /\ nu_result = FALSE

====
